---- MODULE Spec2Model ----
(***************************************************************************)
(* Model of the quality-check core: QualityAnalyzer (src/src/analyzer.py), *)
(* MultiSourceFetcher, YahooFinanceFetcher._resolve_ticker and             *)
(* validate_company_name (src/src/data_fetcher.py).                        *)
(*                                                                         *)
(* Numbers.  Python floats are modelled by exact integer arithmetic:       *)
(*   - scores are kept in tenths of a point (5.0 is 50, +0.5 is +5);       *)
(*   - percent series (margins, ROE, ROCE, ROA), money series and interest *)
(*     coverage hold integers in their own unit;                           *)
(*   - debt_to_equity and current_ratio hold thousandths (RatioScale);     *)
(*   - dividend_yield holds tenths of a percent (YieldScale).              *)
(* A comparison such as avg > 20 is evaluated as Sum > 20 * Len.           *)
(*                                                                         *)
(* Series.  A Python dict series {year: value} is a sequence of values in  *)
(* insertion order; position i of every series of one record is the same   *)
(* fiscal year (the record's common labelling scheme).                     *)
(*                                                                         *)
(* Strings.  Identifiers are sequences of one-character strings so that    *)
(* upper(), strip(), replace() and the substring test 'in' can be computed.*)
(***************************************************************************)
EXTENDS Integers, Sequences, FiniteSets, TLC

VARIABLES
    rec,        \* the FinancialData handed to QualityAnalyzer.analyze
    report,     \* the QualityReport of the last analyze call, NoReport or Raised
    fetchers,   \* MultiSourceFetcher.fetchers
    call,       \* the last MultiSourceFetcher call: arguments, providers' answers, trial order, result
    reordered,  \* history: some fetch_data call so far iterated a reordered adapter list
    vin,        \* the arguments and provider answers of the last validate_company_name call
    vout        \* the dict validate_company_name returned

vars == <<rec, report, fetchers, call, reordered, vin, vout>>

---------------------------------------------------------------------------
(* Arithmetic helpers *)

RECURSIVE Sum(_)
Sum(s) == IF s = <<>> THEN 0 ELSE Head(s) + Sum(Tail(s))

RECURSIVE Pow(_, _)
Pow(b, n) == IF n = 0 THEN 1 ELSE b * Pow(b, n - 1)

Last(s) == s[Len(s)]

Min2(a, b) == IF a < b THEN a ELSE b

Max2(a, b) == IF a > b THEN a ELSE b

SeqMax(s) == CHOOSE x \in {s[i] : i \in DOMAIN s} : \A j \in DOMAIN s : s[j] <= x

SeqMin(s) == CHOOSE x \in {s[i] : i \in DOMAIN s} : \A j \in DOMAIN s : s[j] >= x

Prefix(s, n) == SubSeq(s, 1, Min2(n, Len(s)))

\* sum(1 for v in s if v > 0)
CountPositive(s) == Cardinality({i \in DOMAIN s : s[i] > 0})

\* sum(1 for v in s if v < 0)
CountNegative(s) == Cardinality({i \in DOMAIN s : s[i] < 0})

\* round-half-even of the rational num/den (den > 0) to an integer:
\* what Python's float formatting and round() do on an exactly represented value
RoundHalfEven(num, den) ==
    LET q == num \div den
        r == num % den
    IN  IF 2 * r < den THEN q
        ELSE IF 2 * r > den THEN q + 1
        ELSE IF q % 2 = 0 THEN q ELSE q + 1

\* f"{num/den:.1f}" as a number of tenths, f"{num/den:.2f}" as a number of hundredths
Fmt1(num, den) == RoundHalfEven(10 * num, den)

Fmt2(num, den) == RoundHalfEven(100 * num, den)

---------------------------------------------------------------------------
(* Strings: a Python str is a sequence of one-character strings *)

Lowers == <<"a", "b", "c", "d", "e", "f", "g", "h", "i", "j", "k", "l", "m",
            "n", "o", "p", "q", "r", "s", "t", "u", "v", "w", "x", "y", "z">>

Uppers == <<"A", "B", "C", "D", "E", "F", "G", "H", "I", "J", "K", "L", "M",
            "N", "O", "P", "Q", "R", "S", "T", "U", "V", "W", "X", "Y", "Z">>

Digits == {"0", "1", "2", "3", "4", "5", "6", "7", "8", "9"}

Whitespace == {" ", "\t"}

IsLower(c) == \E i \in 1..26 : Lowers[i] = c

IsUpperChar(c) == \E i \in 1..26 : Uppers[i] = c

UpperChar(c) == IF IsLower(c) THEN Uppers[CHOOSE i \in 1..26 : Lowers[i] = c] ELSE c

LowerChar(c) == IF IsUpperChar(c) THEN Lowers[CHOOSE i \in 1..26 : Uppers[i] = c] ELSE c

\* str.upper(), str.lower()
Upper(s) == [i \in DOMAIN s |-> UpperChar(s[i])]

Lower(s) == [i \in DOMAIN s |-> LowerChar(s[i])]

RECURSIVE LStrip(_)
LStrip(s) == IF s # <<>> /\ Head(s) \in Whitespace THEN LStrip(Tail(s)) ELSE s

RECURSIVE RStrip(_)
RStrip(s) ==
    IF s # <<>> /\ s[Len(s)] \in Whitespace THEN RStrip(SubSeq(s, 1, Len(s) - 1)) ELSE s

\* str.strip()
Strip(s) == RStrip(LStrip(s))

\* sub in s
Contains(s, sub) ==
    \E i \in 1..(Len(s) - Len(sub) + 1) : SubSeq(s, i, i + Len(sub) - 1) = sub

\* s.replace(sub, '')
RECURSIVE Remove(_, _)
Remove(s, sub) ==
    IF Len(s) < Len(sub) THEN s
    ELSE IF SubSeq(s, 1, Len(sub)) = sub
    THEN Remove(SubSeq(s, Len(sub) + 1, Len(s)), sub)
    ELSE <<Head(s)>> \o Remove(Tail(s), sub)

\* str.isalnum(): non-empty and every character a letter or a digit
IsAlnum(s) ==
    /\ s # <<>>
    /\ \A i \in DOMAIN s : IsLower(s[i]) \/ IsUpperChar(s[i]) \/ s[i] \in Digits

\* str.isupper(): at least one cased character and no lower-case one
IsUpper(s) ==
    /\ \E i \in DOMAIN s : IsUpperChar(s[i])
    /\ \A i \in DOMAIN s : ~IsLower(s[i])

DOT == <<".">>

DASH == <<"-">>

NS == <<".", "N", "S">>

BO == <<".", "B", "O">>

---------------------------------------------------------------------------
(* The known-ticker tables of data_fetcher.py *)

YahooFinanceFetcher_INDIAN_TICKERS ==
    {
     <<"T", "C", "S">>, <<"R", "E", "L", "I", "A", "N", "C", "E">>, <<"I", "N", "F", "Y">>,
     <<"H", "D", "F", "C", "B", "A", "N", "K">>, <<"I", "C", "I", "C", "I", "B", "A", "N", "K">>, <<"H", "I", "N", "D", "U", "N", "I", "L", "V", "R">>,
     <<"S", "B", "I", "N">>, <<"B", "H", "A", "R", "T", "I", "A", "R", "T", "L">>, <<"I", "T", "C">>,
     <<"K", "O", "T", "A", "K", "B", "A", "N", "K">>, <<"L", "T">>, <<"A", "X", "I", "S", "B", "A", "N", "K">>,
     <<"W", "I", "P", "R", "O">>, <<"A", "S", "I", "A", "N", "P", "A", "I", "N", "T">>, <<"M", "A", "R", "U", "T", "I">>,
     <<"H", "C", "L", "T", "E", "C", "H">>, <<"S", "U", "N", "P", "H", "A", "R", "M", "A">>, <<"T", "I", "T", "A", "N">>,
     <<"U", "L", "T", "R", "A", "C", "E", "M", "C", "O">>, <<"B", "A", "J", "F", "I", "N", "A", "N", "C", "E">>, <<"N", "E", "S", "T", "L", "E", "I", "N", "D">>,
     <<"T", "E", "C", "H", "M">>, <<"P", "O", "W", "E", "R", "G", "R", "I", "D">>, <<"N", "T", "P", "C">>,
     <<"T", "A", "T", "A", "M", "O", "T", "O", "R", "S">>, <<"T", "A", "T", "A", "S", "T", "E", "E", "L">>, <<"J", "S", "W", "S", "T", "E", "E", "L">>,
     <<"O", "N", "G", "C">>, <<"C", "O", "A", "L", "I", "N", "D", "I", "A">>, <<"A", "D", "A", "N", "I", "E", "N", "T">>,
     <<"A", "D", "A", "N", "I", "P", "O", "R", "T", "S">>, <<"B", "A", "J", "A", "J", "F", "I", "N", "S", "V">>, <<"D", "R", "R", "E", "D", "D", "Y">>,
     <<"C", "I", "P", "L", "A">>, <<"E", "I", "C", "H", "E", "R", "M", "O", "T">>, <<"G", "R", "A", "S", "I", "M">>,
     <<"D", "I", "V", "I", "S", "L", "A", "B">>, <<"B", "R", "I", "T", "A", "N", "N", "I", "A">>, <<"A", "P", "O", "L", "L", "O", "H", "O", "S", "P">>,
     <<"I", "N", "D", "U", "S", "I", "N", "D", "B", "K">>, <<"M", "&", "M">>, <<"B", "P", "C", "L">>,
     <<"H", "E", "R", "O", "M", "O", "T", "O", "C", "O">>, <<"H", "I", "N", "D", "A", "L", "C", "O">>, <<"T", "A", "T", "A", "C", "O", "N", "S", "U", "M">>,
     <<"B", "A", "J", "A", "J", "-", "A", "U", "T", "O">>, <<"U", "P", "L">>
    }

MultiSourceFetcher_INDIAN_TICKERS ==
    {
     <<"T", "C", "S">>, <<"R", "E", "L", "I", "A", "N", "C", "E">>, <<"I", "N", "F", "Y">>,
     <<"H", "D", "F", "C", "B", "A", "N", "K">>, <<"I", "C", "I", "C", "I", "B", "A", "N", "K">>, <<"H", "I", "N", "D", "U", "N", "I", "L", "V", "R">>,
     <<"S", "B", "I", "N">>, <<"B", "H", "A", "R", "T", "I", "A", "R", "T", "L">>, <<"I", "T", "C">>,
     <<"K", "O", "T", "A", "K", "B", "A", "N", "K">>, <<"L", "T">>, <<"A", "X", "I", "S", "B", "A", "N", "K">>,
     <<"W", "I", "P", "R", "O">>, <<"A", "S", "I", "A", "N", "P", "A", "I", "N", "T">>, <<"M", "A", "R", "U", "T", "I">>,
     <<"H", "C", "L", "T", "E", "C", "H">>, <<"S", "U", "N", "P", "H", "A", "R", "M", "A">>, <<"T", "I", "T", "A", "N">>,
     <<"U", "L", "T", "R", "A", "C", "E", "M", "C", "O">>, <<"B", "A", "J", "F", "I", "N", "A", "N", "C", "E">>, <<"N", "E", "S", "T", "L", "E", "I", "N", "D">>,
     <<"T", "E", "C", "H", "M">>, <<"P", "O", "W", "E", "R", "G", "R", "I", "D">>, <<"N", "T", "P", "C">>,
     <<"T", "A", "T", "A", "M", "O", "T", "O", "R", "S">>, <<"T", "A", "T", "A", "S", "T", "E", "E", "L">>, <<"J", "S", "W", "S", "T", "E", "E", "L">>,
     <<"O", "N", "G", "C">>, <<"C", "O", "A", "L", "I", "N", "D", "I", "A">>
    }

\* INDIAN_STOCK_NAMES in validate_company_name: ticker -> company name
INDIAN_STOCK_NAMES ==
    (<<"R", "E", "L", "I", "A", "N", "C", "E">> :>
        <<"R", "e", "l", "i", "a", "n", "c", "e", " ", "I", "n", "d", "u", "s", "t", "r", "i", "e", "s", " ", "L", "i", "m", "i", "t", "e", "d">>) @@
    (<<"T", "C", "S">> :>
        <<"T", "a", "t", "a", " ", "C", "o", "n", "s", "u", "l", "t", "a", "n", "c", "y", " ", "S", "e", "r", "v", "i", "c", "e", "s", " ", "L", "i", "m", "i", "t", "e", "d">>) @@
    (<<"H", "D", "F", "C", "B", "A", "N", "K">> :>
        <<"H", "D", "F", "C", " ", "B", "a", "n", "k", " ", "L", "i", "m", "i", "t", "e", "d">>) @@
    (<<"I", "N", "F", "Y">> :>
        <<"I", "n", "f", "o", "s", "y", "s", " ", "L", "i", "m", "i", "t", "e", "d">>) @@
    (<<"I", "C", "I", "C", "I", "B", "A", "N", "K">> :>
        <<"I", "C", "I", "C", "I", " ", "B", "a", "n", "k", " ", "L", "i", "m", "i", "t", "e", "d">>) @@
    (<<"H", "I", "N", "D", "U", "N", "I", "L", "V", "R">> :>
        <<"H", "i", "n", "d", "u", "s", "t", "a", "n", " ", "U", "n", "i", "l", "e", "v", "e", "r", " ", "L", "i", "m", "i", "t", "e", "d">>) @@
    (<<"S", "B", "I", "N">> :>
        <<"S", "t", "a", "t", "e", " ", "B", "a", "n", "k", " ", "o", "f", " ", "I", "n", "d", "i", "a">>) @@
    (<<"B", "H", "A", "R", "T", "I", "A", "R", "T", "L">> :>
        <<"B", "h", "a", "r", "t", "i", " ", "A", "i", "r", "t", "e", "l", " ", "L", "i", "m", "i", "t", "e", "d">>) @@
    (<<"I", "T", "C">> :>
        <<"I", "T", "C", " ", "L", "i", "m", "i", "t", "e", "d">>) @@
    (<<"K", "O", "T", "A", "K", "B", "A", "N", "K">> :>
        <<"K", "o", "t", "a", "k", " ", "M", "a", "h", "i", "n", "d", "r", "a", " ", "B", "a", "n", "k", " ", "L", "i", "m", "i", "t", "e", "d">>) @@
    (<<"L", "T">> :>
        <<"L", "a", "r", "s", "e", "n", " ", "&", " ", "T", "o", "u", "b", "r", "o", " ", "L", "i", "m", "i", "t", "e", "d">>) @@
    (<<"A", "X", "I", "S", "B", "A", "N", "K">> :>
        <<"A", "x", "i", "s", " ", "B", "a", "n", "k", " ", "L", "i", "m", "i", "t", "e", "d">>) @@
    (<<"W", "I", "P", "R", "O">> :>
        <<"W", "i", "p", "r", "o", " ", "L", "i", "m", "i", "t", "e", "d">>) @@
    (<<"A", "S", "I", "A", "N", "P", "A", "I", "N", "T">> :>
        <<"A", "s", "i", "a", "n", " ", "P", "a", "i", "n", "t", "s", " ", "L", "i", "m", "i", "t", "e", "d">>) @@
    (<<"M", "A", "R", "U", "T", "I">> :>
        <<"M", "a", "r", "u", "t", "i", " ", "S", "u", "z", "u", "k", "i", " ", "I", "n", "d", "i", "a", " ", "L", "i", "m", "i", "t", "e", "d">>) @@
    (<<"H", "C", "L", "T", "E", "C", "H">> :>
        <<"H", "C", "L", " ", "T", "e", "c", "h", "n", "o", "l", "o", "g", "i", "e", "s", " ", "L", "i", "m", "i", "t", "e", "d">>) @@
    (<<"S", "U", "N", "P", "H", "A", "R", "M", "A">> :>
        <<"S", "u", "n", " ", "P", "h", "a", "r", "m", "a", "c", "e", "u", "t", "i", "c", "a", "l", " ", "I", "n", "d", "u", "s", "t", "r", "i", "e", "s", " ", "L", "i", "m", "i", "t", "e", "d">>) @@
    (<<"T", "I", "T", "A", "N">> :>
        <<"T", "i", "t", "a", "n", " ", "C", "o", "m", "p", "a", "n", "y", " ", "L", "i", "m", "i", "t", "e", "d">>) @@
    (<<"U", "L", "T", "R", "A", "C", "E", "M", "C", "O">> :>
        <<"U", "l", "t", "r", "a", "T", "e", "c", "h", " ", "C", "e", "m", "e", "n", "t", " ", "L", "i", "m", "i", "t", "e", "d">>) @@
    (<<"B", "A", "J", "F", "I", "N", "A", "N", "C", "E">> :>
        <<"B", "a", "j", "a", "j", " ", "F", "i", "n", "a", "n", "c", "e", " ", "L", "i", "m", "i", "t", "e", "d">>) @@
    (<<"N", "E", "S", "T", "L", "E", "I", "N", "D">> :>
        <<"N", "e", "s", "t", "l", "e", " ", "I", "n", "d", "i", "a", " ", "L", "i", "m", "i", "t", "e", "d">>) @@
    (<<"T", "E", "C", "H", "M">> :>
        <<"T", "e", "c", "h", " ", "M", "a", "h", "i", "n", "d", "r", "a", " ", "L", "i", "m", "i", "t", "e", "d">>) @@
    (<<"P", "O", "W", "E", "R", "G", "R", "I", "D">> :>
        <<"P", "o", "w", "e", "r", " ", "G", "r", "i", "d", " ", "C", "o", "r", "p", "o", "r", "a", "t", "i", "o", "n", " ", "o", "f", " ", "I", "n", "d", "i", "a", " ", "L", "i", "m", "i", "t", "e", "d">>) @@
    (<<"N", "T", "P", "C">> :>
        <<"N", "T", "P", "C", " ", "L", "i", "m", "i", "t", "e", "d">>) @@
    (<<"T", "A", "T", "A", "M", "O", "T", "O", "R", "S">> :>
        <<"T", "a", "t", "a", " ", "M", "o", "t", "o", "r", "s", " ", "L", "i", "m", "i", "t", "e", "d">>) @@
    (<<"T", "A", "T", "A", "S", "T", "E", "E", "L">> :>
        <<"T", "a", "t", "a", " ", "S", "t", "e", "e", "l", " ", "L", "i", "m", "i", "t", "e", "d">>) @@
    (<<"J", "S", "W", "S", "T", "E", "E", "L">> :>
        <<"J", "S", "W", " ", "S", "t", "e", "e", "l", " ", "L", "i", "m", "i", "t", "e", "d">>) @@
    (<<"O", "N", "G", "C">> :>
        <<"O", "i", "l", " ", "a", "n", "d", " ", "N", "a", "t", "u", "r", "a", "l", " ", "G", "a", "s", " ", "C", "o", "r", "p", "o", "r", "a", "t", "i", "o", "n", " ", "L", "i", "m", "i", "t", "e", "d">>) @@
    (<<"C", "O", "A", "L", "I", "N", "D", "I", "A">> :>
        <<"C", "o", "a", "l", " ", "I", "n", "d", "i", "a", " ", "L", "i", "m", "i", "t", "e", "d">>) @@
    (<<"A", "D", "A", "N", "I", "E", "N", "T">> :>
        <<"A", "d", "a", "n", "i", " ", "E", "n", "t", "e", "r", "p", "r", "i", "s", "e", "s", " ", "L", "i", "m", "i", "t", "e", "d">>) @@
    (<<"A", "D", "A", "N", "I", "P", "O", "R", "T", "S">> :>
        <<"A", "d", "a", "n", "i", " ", "P", "o", "r", "t", "s", " ", "a", "n", "d", " ", "S", "p", "e", "c", "i", "a", "l", " ", "E", "c", "o", "n", "o", "m", "i", "c", " ", "Z", "o", "n", "e", " ", "L", "i", "m", "i", "t", "e", "d">>) @@
    (<<"B", "A", "J", "A", "J", "F", "I", "N", "S", "V">> :>
        <<"B", "a", "j", "a", "j", " ", "F", "i", "n", "s", "e", "r", "v", " ", "L", "i", "m", "i", "t", "e", "d">>) @@
    (<<"D", "R", "R", "E", "D", "D", "Y">> :>
        <<"D", "r", ".", " ", "R", "e", "d", "d", "y", "'", "s", " ", "L", "a", "b", "o", "r", "a", "t", "o", "r", "i", "e", "s", " ", "L", "i", "m", "i", "t", "e", "d">>) @@
    (<<"C", "I", "P", "L", "A">> :>
        <<"C", "i", "p", "l", "a", " ", "L", "i", "m", "i", "t", "e", "d">>) @@
    (<<"E", "I", "C", "H", "E", "R", "M", "O", "T">> :>
        <<"E", "i", "c", "h", "e", "r", " ", "M", "o", "t", "o", "r", "s", " ", "L", "i", "m", "i", "t", "e", "d">>) @@
    (<<"G", "R", "A", "S", "I", "M">> :>
        <<"G", "r", "a", "s", "i", "m", " ", "I", "n", "d", "u", "s", "t", "r", "i", "e", "s", " ", "L", "i", "m", "i", "t", "e", "d">>) @@
    (<<"D", "I", "V", "I", "S", "L", "A", "B">> :>
        <<"D", "i", "v", "i", "'", "s", " ", "L", "a", "b", "o", "r", "a", "t", "o", "r", "i", "e", "s", " ", "L", "i", "m", "i", "t", "e", "d">>) @@
    (<<"B", "R", "I", "T", "A", "N", "N", "I", "A">> :>
        <<"B", "r", "i", "t", "a", "n", "n", "i", "a", " ", "I", "n", "d", "u", "s", "t", "r", "i", "e", "s", " ", "L", "i", "m", "i", "t", "e", "d">>) @@
    (<<"A", "P", "O", "L", "L", "O", "H", "O", "S", "P">> :>
        <<"A", "p", "o", "l", "l", "o", " ", "H", "o", "s", "p", "i", "t", "a", "l", "s", " ", "E", "n", "t", "e", "r", "p", "r", "i", "s", "e", " ", "L", "i", "m", "i", "t", "e", "d">>) @@
    (<<"I", "N", "D", "U", "S", "I", "N", "D", "B", "K">> :>
        <<"I", "n", "d", "u", "s", "I", "n", "d", " ", "B", "a", "n", "k", " ", "L", "i", "m", "i", "t", "e", "d">>) @@
    (<<"M", "&", "M">> :>
        <<"M", "a", "h", "i", "n", "d", "r", "a", " ", "&", " ", "M", "a", "h", "i", "n", "d", "r", "a", " ", "L", "i", "m", "i", "t", "e", "d">>) @@
    (<<"B", "P", "C", "L">> :>
        <<"B", "h", "a", "r", "a", "t", " ", "P", "e", "t", "r", "o", "l", "e", "u", "m", " ", "C", "o", "r", "p", "o", "r", "a", "t", "i", "o", "n", " ", "L", "i", "m", "i", "t", "e", "d">>) @@
    (<<"H", "E", "R", "O", "M", "O", "T", "O", "C", "O">> :>
        <<"H", "e", "r", "o", " ", "M", "o", "t", "o", "C", "o", "r", "p", " ", "L", "i", "m", "i", "t", "e", "d">>) @@
    (<<"H", "I", "N", "D", "A", "L", "C", "O">> :>
        <<"H", "i", "n", "d", "a", "l", "c", "o", " ", "I", "n", "d", "u", "s", "t", "r", "i", "e", "s", " ", "L", "i", "m", "i", "t", "e", "d">>) @@
    (<<"T", "A", "T", "A", "C", "O", "N", "S", "U", "M">> :>
        <<"T", "a", "t", "a", " ", "C", "o", "n", "s", "u", "m", "e", "r", " ", "P", "r", "o", "d", "u", "c", "t", "s", " ", "L", "i", "m", "i", "t", "e", "d">>) @@
    (<<"B", "A", "J", "A", "J", "-", "A", "U", "T", "O">> :>
        <<"B", "a", "j", "a", "j", " ", "A", "u", "t", "o", " ", "L", "i", "m", "i", "t", "e", "d">>) @@
    (<<"U", "P", "L">> :>
        <<"U", "P", "L", " ", "L", "i", "m", "i", "t", "e", "d">>) @@
    (<<"V", "E", "D", "L">> :>
        <<"V", "e", "d", "a", "n", "t", "a", " ", "L", "i", "m", "i", "t", "e", "d">>) @@
    (<<"G", "O", "D", "R", "E", "J", "C", "P">> :>
        <<"G", "o", "d", "r", "e", "j", " ", "C", "o", "n", "s", "u", "m", "e", "r", " ", "P", "r", "o", "d", "u", "c", "t", "s", " ", "L", "i", "m", "i", "t", "e", "d">>) @@
    (<<"D", "A", "B", "U", "R">> :>
        <<"D", "a", "b", "u", "r", " ", "I", "n", "d", "i", "a", " ", "L", "i", "m", "i", "t", "e", "d">>) @@
    (<<"M", "A", "R", "I", "C", "O">> :>
        <<"M", "a", "r", "i", "c", "o", " ", "L", "i", "m", "i", "t", "e", "d">>) @@
    (<<"P", "I", "I", "N", "D">> :>
        <<"P", "I", " ", "I", "n", "d", "u", "s", "t", "r", "i", "e", "s", " ", "L", "i", "m", "i", "t", "e", "d">>) @@
    (<<"B", "A", "N", "K", "B", "A", "R", "O", "D", "A">> :>
        <<"B", "a", "n", "k", " ", "o", "f", " ", "B", "a", "r", "o", "d", "a">>) @@
    (<<"P", "N", "B">> :>
        <<"P", "u", "n", "j", "a", "b", " ", "N", "a", "t", "i", "o", "n", "a", "l", " ", "B", "a", "n", "k">>) @@
    (<<"C", "A", "N", "B", "K">> :>
        <<"C", "a", "n", "a", "r", "a", " ", "B", "a", "n", "k">>) @@
    (<<"U", "N", "I", "O", "N", "B", "A", "N", "K">> :>
        <<"U", "n", "i", "o", "n", " ", "B", "a", "n", "k", " ", "o", "f", " ", "I", "n", "d", "i", "a">>) @@
    (<<"I", "N", "D", "H", "O", "T", "E", "L">> :>
        <<"T", "h", "e", " ", "I", "n", "d", "i", "a", "n", " ", "H", "o", "t", "e", "l", "s", " ", "C", "o", "m", "p", "a", "n", "y", " ", "L", "i", "m", "i", "t", "e", "d">>) @@
    (<<"T", "R", "E", "N", "T">> :>
        <<"T", "r", "e", "n", "t", " ", "L", "i", "m", "i", "t", "e", "d">>) @@
    (<<"P", "I", "D", "I", "L", "I", "T", "I", "N", "D">> :>
        <<"P", "i", "d", "i", "l", "i", "t", "e", " ", "I", "n", "d", "u", "s", "t", "r", "i", "e", "s", " ", "L", "i", "m", "i", "t", "e", "d">>) @@
    (<<"A", "M", "B", "U", "J", "A", "C", "E", "M">> :>
        <<"A", "m", "b", "u", "j", "a", " ", "C", "e", "m", "e", "n", "t", "s", " ", "L", "i", "m", "i", "t", "e", "d">>) @@
    (<<"A", "C", "C">> :>
        <<"A", "C", "C", " ", "L", "i", "m", "i", "t", "e", "d">>) @@
    (<<"S", "H", "R", "E", "E", "C", "E", "M">> :>
        <<"S", "h", "r", "e", "e", " ", "C", "e", "m", "e", "n", "t", " ", "L", "i", "m", "i", "t", "e", "d">>) @@
    (<<"G", "A", "I", "L">> :>
        <<"G", "A", "I", "L", " ", "(", "I", "n", "d", "i", "a", ")", " ", "L", "i", "m", "i", "t", "e", "d">>) @@
    (<<"I", "O", "C">> :>
        <<"I", "n", "d", "i", "a", "n", " ", "O", "i", "l", " ", "C", "o", "r", "p", "o", "r", "a", "t", "i", "o", "n", " ", "L", "i", "m", "i", "t", "e", "d">>) @@
    (<<"H", "I", "N", "D", "Z", "I", "N", "C">> :>
        <<"H", "i", "n", "d", "u", "s", "t", "a", "n", " ", "Z", "i", "n", "c", " ", "L", "i", "m", "i", "t", "e", "d">>) @@
    (<<"S", "A", "I", "L">> :>
        <<"S", "t", "e", "e", "l", " ", "A", "u", "t", "h", "o", "r", "i", "t", "y", " ", "o", "f", " ", "I", "n", "d", "i", "a", " ", "L", "i", "m", "i", "t", "e", "d">>) @@
    (<<"N", "M", "D", "C">> :>
        <<"N", "M", "D", "C", " ", "L", "i", "m", "i", "t", "e", "d">>) @@
    (<<"A", "D", "A", "N", "I", "G", "R", "E", "E", "N">> :>
        <<"A", "d", "a", "n", "i", " ", "G", "r", "e", "e", "n", " ", "E", "n", "e", "r", "g", "y", " ", "L", "i", "m", "i", "t", "e", "d">>) @@
    (<<"A", "D", "A", "N", "I", "P", "O", "W", "E", "R">> :>
        <<"A", "d", "a", "n", "i", " ", "P", "o", "w", "e", "r", " ", "L", "i", "m", "i", "t", "e", "d">>) @@
    (<<"A", "D", "A", "N", "I", "T", "R", "A", "N", "S">> :>
        <<"A", "d", "a", "n", "i", " ", "T", "r", "a", "n", "s", "m", "i", "s", "s", "i", "o", "n", " ", "L", "i", "m", "i", "t", "e", "d">>) @@
    (<<"T", "A", "T", "A", "P", "O", "W", "E", "R">> :>
        <<"T", "a", "t", "a", " ", "P", "o", "w", "e", "r", " ", "C", "o", "m", "p", "a", "n", "y", " ", "L", "i", "m", "i", "t", "e", "d">>) @@
    (<<"T", "O", "R", "N", "T", "P", "O", "W", "E", "R">> :>
        <<"T", "o", "r", "r", "e", "n", "t", " ", "P", "o", "w", "e", "r", " ", "L", "i", "m", "i", "t", "e", "d">>) @@
    (<<"S", "I", "E", "M", "E", "N", "S">> :>
        <<"S", "i", "e", "m", "e", "n", "s", " ", "L", "i", "m", "i", "t", "e", "d">>) @@
    (<<"A", "B", "B">> :>
        <<"A", "B", "B", " ", "I", "n", "d", "i", "a", " ", "L", "i", "m", "i", "t", "e", "d">>) @@
    (<<"H", "A", "V", "E", "L", "L", "S">> :>
        <<"H", "a", "v", "e", "l", "l", "s", " ", "I", "n", "d", "i", "a", " ", "L", "i", "m", "i", "t", "e", "d">>) @@
    (<<"C", "R", "O", "M", "P", "T", "O", "N">> :>
        <<"C", "r", "o", "m", "p", "t", "o", "n", " ", "G", "r", "e", "a", "v", "e", "s", " ", "C", "o", "n", "s", "u", "m", "e", "r", " ", "E", "l", "e", "c", "t", "r", "i", "c", "a", "l", "s", " ", "L", "i", "m", "i", "t", "e", "d">>) @@
    (<<"V", "O", "L", "T", "A", "S">> :>
        <<"V", "o", "l", "t", "a", "s", " ", "L", "i", "m", "i", "t", "e", "d">>) @@
    (<<"B", "L", "U", "E", "S", "T", "A", "R", "C", "O">> :>
        <<"B", "l", "u", "e", " ", "S", "t", "a", "r", " ", "L", "i", "m", "i", "t", "e", "d">>) @@
    (<<"D", "I", "X", "O", "N">> :>
        <<"D", "i", "x", "o", "n", " ", "T", "e", "c", "h", "n", "o", "l", "o", "g", "i", "e", "s", " ", "(", "I", "n", "d", "i", "a", ")", " ", "L", "i", "m", "i", "t", "e", "d">>) @@
    (<<"G", "O", "D", "R", "E", "J", "P", "R", "O", "P">> :>
        <<"G", "o", "d", "r", "e", "j", " ", "P", "r", "o", "p", "e", "r", "t", "i", "e", "s", " ", "L", "i", "m", "i", "t", "e", "d">>) @@
    (<<"D", "L", "F">> :>
        <<"D", "L", "F", " ", "L", "i", "m", "i", "t", "e", "d">>) @@
    (<<"O", "B", "E", "R", "O", "I", "R", "L", "T", "Y">> :>
        <<"O", "b", "e", "r", "o", "i", " ", "R", "e", "a", "l", "t", "y", " ", "L", "i", "m", "i", "t", "e", "d">>) @@
    (<<"P", "R", "E", "S", "T", "I", "G", "E">> :>
        <<"P", "r", "e", "s", "t", "i", "g", "e", " ", "E", "s", "t", "a", "t", "e", "s", " ", "P", "r", "o", "j", "e", "c", "t", "s", " ", "L", "i", "m", "i", "t", "e", "d">>) @@
    (<<"P", "H", "O", "E", "N", "I", "X", "L", "T", "D">> :>
        <<"T", "h", "e", " ", "P", "h", "o", "e", "n", "i", "x", " ", "M", "i", "l", "l", "s", " ", "L", "i", "m", "i", "t", "e", "d">>) @@
    (<<"I", "N", "D", "I", "G", "O", "P", "N", "T", "S">> :>
        <<"I", "n", "d", "i", "g", "o", " ", "P", "a", "i", "n", "t", "s", " ", "L", "i", "m", "i", "t", "e", "d">>) @@
    (<<"B", "E", "R", "G", "E", "P", "A", "I", "N", "T">> :>
        <<"B", "e", "r", "g", "e", "r", " ", "P", "a", "i", "n", "t", "s", " ", "I", "n", "d", "i", "a", " ", "L", "i", "m", "i", "t", "e", "d">>) @@
    (<<"A", "K", "Z", "O", "I", "N", "D", "I", "A">> :>
        <<"A", "k", "z", "o", " ", "N", "o", "b", "e", "l", " ", "I", "n", "d", "i", "a", " ", "L", "i", "m", "i", "t", "e", "d">>) @@
    (<<"M", "C", "D", "O", "W", "E", "L", "L", "-", "N">> :>
        <<"U", "n", "i", "t", "e", "d", " ", "S", "p", "i", "r", "i", "t", "s", " ", "L", "i", "m", "i", "t", "e", "d">>) @@
    (<<"R", "A", "D", "I", "C", "O">> :>
        <<"R", "a", "d", "i", "c", "o", " ", "K", "h", "a", "i", "t", "a", "n", " ", "L", "i", "m", "i", "t", "e", "d">>) @@
    (<<"U", "N", "I", "T", "D", "S", "P", "R">> :>
        <<"U", "n", "i", "t", "e", "d", " ", "S", "p", "i", "r", "i", "t", "s", " ", "L", "i", "m", "i", "t", "e", "d">>) @@
    (<<"V", "B", "L">> :>
        <<"V", "a", "r", "u", "n", " ", "B", "e", "v", "e", "r", "a", "g", "e", "s", " ", "L", "i", "m", "i", "t", "e", "d">>) @@
    (<<"T", "A", "T", "A", "C", "O", "M", "M">> :>
        <<"T", "a", "t", "a", " ", "C", "o", "m", "m", "u", "n", "i", "c", "a", "t", "i", "o", "n", "s", " ", "L", "i", "m", "i", "t", "e", "d">>) @@
    (<<"T", "V", "S", "M", "O", "T", "O", "R">> :>
        <<"T", "V", "S", " ", "M", "o", "t", "o", "r", " ", "C", "o", "m", "p", "a", "n", "y", " ", "L", "i", "m", "i", "t", "e", "d">>) @@
    (<<"B", "A", "J", "A", "J", "H", "L", "D", "N", "G">> :>
        <<"B", "a", "j", "a", "j", " ", "H", "o", "l", "d", "i", "n", "g", "s", " ", "&", " ", "I", "n", "v", "e", "s", "t", "m", "e", "n", "t", " ", "L", "i", "m", "i", "t", "e", "d">>) @@
    (<<"B", "O", "S", "C", "H", "L", "T", "D">> :>
        <<"B", "o", "s", "c", "h", " ", "L", "i", "m", "i", "t", "e", "d">>) @@
    (<<"M", "O", "T", "H", "E", "R", "S", "O", "N">> :>
        <<"S", "a", "m", "v", "a", "r", "d", "h", "a", "n", "a", " ", "M", "o", "t", "h", "e", "r", "s", "o", "n", " ", "I", "n", "t", "e", "r", "n", "a", "t", "i", "o", "n", "a", "l", " ", "L", "i", "m", "i", "t", "e", "d">>) @@
    (<<"E", "S", "C", "O", "R", "T", "S">> :>
        <<"E", "s", "c", "o", "r", "t", "s", " ", "K", "u", "b", "o", "t", "a", " ", "L", "i", "m", "i", "t", "e", "d">>) @@
    (<<"A", "S", "H", "O", "K", "L", "E", "Y">> :>
        <<"A", "s", "h", "o", "k", " ", "L", "e", "y", "l", "a", "n", "d", " ", "L", "i", "m", "i", "t", "e", "d">>) @@
    (<<"A", "P", "O", "L", "L", "O", "T", "Y", "R", "E">> :>
        <<"A", "p", "o", "l", "l", "o", " ", "T", "y", "r", "e", "s", " ", "L", "i", "m", "i", "t", "e", "d">>) @@
    (<<"M", "R", "F">> :>
        <<"M", "R", "F", " ", "L", "i", "m", "i", "t", "e", "d">>) @@
    (<<"C", "E", "A", "T">> :>
        <<"C", "E", "A", "T", " ", "L", "i", "m", "i", "t", "e", "d">>) @@
    (<<"Z", "Y", "D", "U", "S", "L", "I", "F", "E">> :>
        <<"Z", "y", "d", "u", "s", " ", "L", "i", "f", "e", "s", "c", "i", "e", "n", "c", "e", "s", " ", "L", "i", "m", "i", "t", "e", "d">>) @@
    (<<"T", "O", "R", "N", "T", "P", "H", "A", "R", "M">> :>
        <<"T", "o", "r", "r", "e", "n", "t", " ", "P", "h", "a", "r", "m", "a", "c", "e", "u", "t", "i", "c", "a", "l", "s", " ", "L", "i", "m", "i", "t", "e", "d">>) @@
    (<<"A", "U", "R", "O", "P", "H", "A", "R", "M", "A">> :>
        <<"A", "u", "r", "o", "b", "i", "n", "d", "o", " ", "P", "h", "a", "r", "m", "a", " ", "L", "i", "m", "i", "t", "e", "d">>) @@
    (<<"L", "U", "P", "I", "N">> :>
        <<"L", "u", "p", "i", "n", " ", "L", "i", "m", "i", "t", "e", "d">>) @@
    (<<"B", "I", "O", "C", "O", "N">> :>
        <<"B", "i", "o", "c", "o", "n", " ", "L", "i", "m", "i", "t", "e", "d">>) @@
    (<<"A", "L", "K", "E", "M">> :>
        <<"A", "l", "k", "e", "m", " ", "L", "a", "b", "o", "r", "a", "t", "o", "r", "i", "e", "s", " ", "L", "i", "m", "i", "t", "e", "d">>) @@
    (<<"L", "A", "L", "P", "A", "T", "H", "L", "A", "B">> :>
        <<"D", "r", ".", " ", "L", "a", "l", " ", "P", "a", "t", "h", "L", "a", "b", "s", " ", "L", "i", "m", "i", "t", "e", "d">>) @@
    (<<"F", "O", "R", "T", "I", "S">> :>
        <<"F", "o", "r", "t", "i", "s", " ", "H", "e", "a", "l", "t", "h", "c", "a", "r", "e", " ", "L", "i", "m", "i", "t", "e", "d">>) @@
    (<<"M", "A", "X", "H", "E", "A", "L", "T", "H">> :>
        <<"M", "a", "x", " ", "H", "e", "a", "l", "t", "h", "c", "a", "r", "e", " ", "I", "n", "s", "t", "i", "t", "u", "t", "e", " ", "L", "i", "m", "i", "t", "e", "d">>) @@
    (<<"S", "Y", "N", "G", "E", "N", "E">> :>
        <<"S", "y", "n", "g", "e", "n", "e", " ", "I", "n", "t", "e", "r", "n", "a", "t", "i", "o", "n", "a", "l", " ", "L", "i", "m", "i", "t", "e", "d">>) @@
    (<<"P", "V", "R">> :>
        <<"P", "V", "R", " ", "I", "N", "O", "X", " ", "L", "i", "m", "i", "t", "e", "d">>) @@
    (<<"P", "V", "R", "I", "N", "O", "X">> :>
        <<"P", "V", "R", " ", "I", "N", "O", "X", " ", "L", "i", "m", "i", "t", "e", "d">>) @@
    (<<"Z", "O", "M", "A", "T", "O">> :>
        <<"Z", "o", "m", "a", "t", "o", " ", "L", "i", "m", "i", "t", "e", "d">>) @@
    (<<"N", "Y", "K", "A", "A">> :>
        <<"F", "S", "N", " ", "E", "-", "C", "o", "m", "m", "e", "r", "c", "e", " ", "V", "e", "n", "t", "u", "r", "e", "s", " ", "L", "i", "m", "i", "t", "e", "d">>) @@
    (<<"P", "O", "L", "I", "C", "Y", "B", "Z", "R">> :>
        <<"P", "B", " ", "F", "i", "n", "t", "e", "c", "h", " ", "L", "i", "m", "i", "t", "e", "d">>) @@
    (<<"P", "A", "Y", "T", "M">> :>
        <<"O", "n", "e", " ", "9", "7", " ", "C", "o", "m", "m", "u", "n", "i", "c", "a", "t", "i", "o", "n", "s", " ", "L", "i", "m", "i", "t", "e", "d">>) @@
    (<<"D", "M", "A", "R", "T">> :>
        <<"A", "v", "e", "n", "u", "e", " ", "S", "u", "p", "e", "r", "m", "a", "r", "t", "s", " ", "L", "i", "m", "i", "t", "e", "d">>) @@
    (<<"T", "A", "T", "A", "E", "L", "X", "S", "I">> :>
        <<"T", "a", "t", "a", " ", "E", "l", "x", "s", "i", " ", "L", "i", "m", "i", "t", "e", "d">>) @@
    (<<"C", "O", "F", "O", "R", "G", "E">> :>
        <<"C", "o", "f", "o", "r", "g", "e", " ", "L", "i", "m", "i", "t", "e", "d">>) @@
    (<<"L", "T", "T", "S">> :>
        <<"L", "&", "T", " ", "T", "e", "c", "h", "n", "o", "l", "o", "g", "y", " ", "S", "e", "r", "v", "i", "c", "e", "s", " ", "L", "i", "m", "i", "t", "e", "d">>) @@
    (<<"P", "E", "R", "S", "I", "S", "T", "E", "N", "T">> :>
        <<"P", "e", "r", "s", "i", "s", "t", "e", "n", "t", " ", "S", "y", "s", "t", "e", "m", "s", " ", "L", "i", "m", "i", "t", "e", "d">>) @@
    (<<"M", "P", "H", "A", "S", "I", "S">> :>
        <<"M", "p", "h", "a", "s", "i", "s", " ", "L", "i", "m", "i", "t", "e", "d">>) @@
    (<<"L", "T", "I", "M">> :>
        <<"L", "T", "I", "M", "i", "n", "d", "t", "r", "e", "e", " ", "L", "i", "m", "i", "t", "e", "d">>) @@
    (<<"O", "F", "S", "S">> :>
        <<"O", "r", "a", "c", "l", "e", " ", "F", "i", "n", "a", "n", "c", "i", "a", "l", " ", "S", "e", "r", "v", "i", "c", "e", "s", " ", "S", "o", "f", "t", "w", "a", "r", "e", " ", "L", "i", "m", "i", "t", "e", "d">>) @@
    (<<"I", "N", "D", "U", "S", "T", "O", "W", "E", "R">> :>
        <<"I", "n", "d", "u", "s", " ", "T", "o", "w", "e", "r", "s", " ", "L", "i", "m", "i", "t", "e", "d">>) @@
    (<<"I", "R", "C", "T", "C">> :>
        <<"I", "n", "d", "i", "a", "n", " ", "R", "a", "i", "l", "w", "a", "y", " ", "C", "a", "t", "e", "r", "i", "n", "g", " ", "a", "n", "d", " ", "T", "o", "u", "r", "i", "s", "m", " ", "C", "o", "r", "p", "o", "r", "a", "t", "i", "o", "n", " ", "L", "i", "m", "i", "t", "e", "d">>) @@
    (<<"C", "O", "N", "C", "O", "R">> :>
        <<"C", "o", "n", "t", "a", "i", "n", "e", "r", " ", "C", "o", "r", "p", "o", "r", "a", "t", "i", "o", "n", " ", "o", "f", " ", "I", "n", "d", "i", "a", " ", "L", "i", "m", "i", "t", "e", "d">>) @@
    (<<"I", "R", "F", "C">> :>
        <<"I", "n", "d", "i", "a", "n", " ", "R", "a", "i", "l", "w", "a", "y", " ", "F", "i", "n", "a", "n", "c", "e", " ", "C", "o", "r", "p", "o", "r", "a", "t", "i", "o", "n", " ", "L", "i", "m", "i", "t", "e", "d">>) @@
    (<<"R", "E", "C", "L", "T", "D">> :>
        <<"R", "E", "C", " ", "L", "i", "m", "i", "t", "e", "d">>) @@
    (<<"P", "F", "C">> :>
        <<"P", "o", "w", "e", "r", " ", "F", "i", "n", "a", "n", "c", "e", " ", "C", "o", "r", "p", "o", "r", "a", "t", "i", "o", "n", " ", "L", "i", "m", "i", "t", "e", "d">>) @@
    (<<"L", "I", "C", "H", "S", "G", "F", "I", "N">> :>
        <<"L", "I", "C", " ", "H", "o", "u", "s", "i", "n", "g", " ", "F", "i", "n", "a", "n", "c", "e", " ", "L", "i", "m", "i", "t", "e", "d">>) @@
    (<<"H", "D", "F", "C", "L", "I", "F", "E">> :>
        <<"H", "D", "F", "C", " ", "L", "i", "f", "e", " ", "I", "n", "s", "u", "r", "a", "n", "c", "e", " ", "C", "o", "m", "p", "a", "n", "y", " ", "L", "i", "m", "i", "t", "e", "d">>) @@
    (<<"S", "B", "I", "L", "I", "F", "E">> :>
        <<"S", "B", "I", " ", "L", "i", "f", "e", " ", "I", "n", "s", "u", "r", "a", "n", "c", "e", " ", "C", "o", "m", "p", "a", "n", "y", " ", "L", "i", "m", "i", "t", "e", "d">>) @@
    (<<"I", "C", "I", "C", "I", "P", "R", "U", "L", "I">> :>
        <<"I", "C", "I", "C", "I", " ", "P", "r", "u", "d", "e", "n", "t", "i", "a", "l", " ", "L", "i", "f", "e", " ", "I", "n", "s", "u", "r", "a", "n", "c", "e", " ", "C", "o", "m", "p", "a", "n", "y", " ", "L", "i", "m", "i", "t", "e", "d">>) @@
    (<<"I", "C", "I", "C", "I", "G", "I">> :>
        <<"I", "C", "I", "C", "I", " ", "L", "o", "m", "b", "a", "r", "d", " ", "G", "e", "n", "e", "r", "a", "l", " ", "I", "n", "s", "u", "r", "a", "n", "c", "e", " ", "C", "o", "m", "p", "a", "n", "y", " ", "L", "i", "m", "i", "t", "e", "d">>) @@
    (<<"B", "A", "J", "A", "J", "H", "F", "L">> :>
        <<"B", "a", "j", "a", "j", " ", "H", "o", "u", "s", "i", "n", "g", " ", "F", "i", "n", "a", "n", "c", "e", " ", "L", "i", "m", "i", "t", "e", "d">>) @@
    (<<"S", "H", "R", "I", "R", "A", "M", "F", "I", "N">> :>
        <<"S", "h", "r", "i", "r", "a", "m", " ", "F", "i", "n", "a", "n", "c", "e", " ", "L", "i", "m", "i", "t", "e", "d">>) @@
    (<<"C", "H", "O", "L", "A", "F", "I", "N">> :>
        <<"C", "h", "o", "l", "a", "m", "a", "n", "d", "a", "l", "a", "m", " ", "I", "n", "v", "e", "s", "t", "m", "e", "n", "t", " ", "a", "n", "d", " ", "F", "i", "n", "a", "n", "c", "e", " ", "C", "o", "m", "p", "a", "n", "y", " ", "L", "i", "m", "i", "t", "e", "d">>) @@
    (<<"M", "U", "T", "H", "O", "O", "T", "F", "I", "N">> :>
        <<"M", "u", "t", "h", "o", "o", "t", " ", "F", "i", "n", "a", "n", "c", "e", " ", "L", "i", "m", "i", "t", "e", "d">>) @@
    (<<"M", "A", "N", "A", "P", "P", "U", "R", "A", "M">> :>
        <<"M", "a", "n", "a", "p", "p", "u", "r", "a", "m", " ", "F", "i", "n", "a", "n", "c", "e", " ", "L", "i", "m", "i", "t", "e", "d">>) @@
    (<<"J", "I", "N", "D", "A", "L", "S", "T", "E", "L">> :>
        <<"J", "i", "n", "d", "a", "l", " ", "S", "t", "e", "e", "l", " ", "&", " ", "P", "o", "w", "e", "r", " ", "L", "i", "m", "i", "t", "e", "d">>) @@
    (<<"C", "R", "I", "S", "I", "L">> :>
        <<"C", "R", "I", "S", "I", "L", " ", "L", "i", "m", "i", "t", "e", "d">>) @@
    (<<"I", "C", "R", "A">> :>
        <<"I", "C", "R", "A", " ", "L", "i", "m", "i", "t", "e", "d">>) @@
    (<<"P", "E", "T", "R", "O", "N", "E", "T">> :>
        <<"P", "e", "t", "r", "o", "n", "e", "t", " ", "L", "N", "G", " ", "L", "i", "m", "i", "t", "e", "d">>) @@
    (<<"I", "N", "D", "I", "A", "M", "A", "R", "T">> :>
        <<"I", "n", "d", "i", "a", "M", "A", "R", "T", " ", "I", "n", "t", "e", "r", "M", "E", "S", "H", " ", "L", "i", "m", "i", "t", "e", "d">>) @@
    (<<"J", "U", "S", "T", "D", "I", "A", "L">> :>
        <<"J", "u", "s", "t", " ", "D", "i", "a", "l", " ", "L", "i", "m", "i", "t", "e", "d">>) @@
    (<<"I", "N", "F", "O", " ", "E", "D", "G", "E">> :>
        <<"I", "n", "f", "o", " ", "E", "d", "g", "e", " ", "(", "I", "n", "d", "i", "a", ")", " ", "L", "i", "m", "i", "t", "e", "d">>) @@
    (<<"N", "A", "U", "K", "R", "I">> :>
        <<"I", "n", "f", "o", " ", "E", "d", "g", "e", " ", "(", "I", "n", "d", "i", "a", ")", " ", "L", "i", "m", "i", "t", "e", "d">>) @@
    (<<"P", "G", "H", "H">> :>
        <<"P", "r", "o", "c", "t", "e", "r", " ", "&", " ", "G", "a", "m", "b", "l", "e", " ", "H", "y", "g", "i", "e", "n", "e", " ", "a", "n", "d", " ", "H", "e", "a", "l", "t", "h", " ", "C", "a", "r", "e", " ", "L", "i", "m", "i", "t", "e", "d">>) @@
    (<<"C", "O", "L", "P", "A", "L">> :>
        <<"C", "o", "l", "g", "a", "t", "e", "-", "P", "a", "l", "m", "o", "l", "i", "v", "e", " ", "(", "I", "n", "d", "i", "a", ")", " ", "L", "i", "m", "i", "t", "e", "d">>) @@
    (<<"G", "I", "L", "L", "E", "T", "T", "E">> :>
        <<"G", "i", "l", "l", "e", "t", "t", "e", " ", "I", "n", "d", "i", "a", " ", "L", "i", "m", "i", "t", "e", "d">>) @@
    (<<"H", "O", "N", "A", "U", "T">> :>
        <<"H", "o", "n", "e", "y", "w", "e", "l", "l", " ", "A", "u", "t", "o", "m", "a", "t", "i", "o", "n", " ", "I", "n", "d", "i", "a", " ", "L", "i", "m", "i", "t", "e", "d">>) @@
    (<<"P", "F", "I", "Z", "E", "R">> :>
        <<"P", "f", "i", "z", "e", "r", " ", "L", "i", "m", "i", "t", "e", "d">>) @@
    (<<"G", "L", "A", "X", "O">> :>
        <<"G", "l", "a", "x", "o", "S", "m", "i", "t", "h", "K", "l", "i", "n", "e", " ", "P", "h", "a", "r", "m", "a", "c", "e", "u", "t", "i", "c", "a", "l", "s", " ", "L", "i", "m", "i", "t", "e", "d">>) @@
    (<<"A", "B", "B", "O", "T", "I", "N", "D", "I", "A">> :>
        <<"A", "b", "b", "o", "t", "t", " ", "I", "n", "d", "i", "a", " ", "L", "i", "m", "i", "t", "e", "d">>) @@
    (<<"S", "A", "N", "O", "F", "I">> :>
        <<"S", "a", "n", "o", "f", "i", " ", "I", "n", "d", "i", "a", " ", "L", "i", "m", "i", "t", "e", "d">>) @@
    (<<"P", "O", "L", "Y", "C", "A", "B">> :>
        <<"P", "o", "l", "y", "c", "a", "b", " ", "I", "n", "d", "i", "a", " ", "L", "i", "m", "i", "t", "e", "d">>) @@
    (<<"K", "A", "N", "S", "A", "I", "N", "E", "R">> :>
        <<"K", "a", "n", "s", "a", "i", " ", "N", "e", "r", "o", "l", "a", "c", " ", "P", "a", "i", "n", "t", "s", " ", "L", "i", "m", "i", "t", "e", "d">>) @@
    (<<"R", "A", "Y", "M", "O", "N", "D">> :>
        <<"R", "a", "y", "m", "o", "n", "d", " ", "L", "i", "m", "i", "t", "e", "d">>) @@
    (<<"A", "I", "A", "E", "N", "G">> :>
        <<"A", "I", "A", " ", "E", "n", "g", "i", "n", "e", "e", "r", "i", "n", "g", " ", "L", "i", "m", "i", "t", "e", "d">>) @@
    (<<"W", "H", "I", "R", "L", "P", "O", "O", "L">> :>
        <<"W", "h", "i", "r", "l", "p", "o", "o", "l", " ", "o", "f", " ", "I", "n", "d", "i", "a", " ", "L", "i", "m", "i", "t", "e", "d">>) @@
    (<<"S", "C", "H", "A", "E", "F", "F", "L", "E", "R">> :>
        <<"S", "c", "h", "a", "e", "f", "f", "l", "e", "r", " ", "I", "n", "d", "i", "a", " ", "L", "i", "m", "i", "t", "e", "d">>) @@
    (<<"E", "X", "I", "D", "E", "I", "N", "D">> :>
        <<"E", "x", "i", "d", "e", " ", "I", "n", "d", "u", "s", "t", "r", "i", "e", "s", " ", "L", "i", "m", "i", "t", "e", "d">>) @@
    (<<"A", "M", "A", "R", "A", "R", "A", "J", "A">> :>
        <<"A", "m", "a", "r", "a", " ", "R", "a", "j", "a", " ", "E", "n", "e", "r", "g", "y", " ", "&", " ", "M", "o", "b", "i", "l", "i", "t", "y", " ", "L", "i", "m", "i", "t", "e", "d">>) @@
    (<<"R", "E", "L", "A", "X", "O">> :>
        <<"R", "e", "l", "a", "x", "o", " ", "F", "o", "o", "t", "w", "e", "a", "r", "s", " ", "L", "i", "m", "i", "t", "e", "d">>) @@
    (<<"B", "A", "T", "A", "I", "N", "D", "I", "A">> :>
        <<"B", "a", "t", "a", " ", "I", "n", "d", "i", "a", " ", "L", "i", "m", "i", "t", "e", "d">>) @@
    (<<"P", "A", "G", "E", "I", "N", "D">> :>
        <<"P", "a", "g", "e", " ", "I", "n", "d", "u", "s", "t", "r", "i", "e", "s", " ", "L", "i", "m", "i", "t", "e", "d">>) @@
    (<<"V", "E", "N", "K", "E", "Y", "S">> :>
        <<"V", "e", "n", "k", "y", "'", "s", " ", "(", "I", "n", "d", "i", "a", ")", " ", "L", "i", "m", "i", "t", "e", "d">>) @@
    (<<"J", "U", "B", "L", "F", "O", "O", "D">> :>
        <<"J", "u", "b", "i", "l", "a", "n", "t", " ", "F", "o", "o", "d", "W", "o", "r", "k", "s", " ", "L", "i", "m", "i", "t", "e", "d">>) @@
    (<<"W", "E", "S", "T", "L", "I", "F", "E">> :>
        <<"W", "e", "s", "t", "l", "i", "f", "e", " ", "F", "o", "o", "d", "w", "o", "r", "l", "d", " ", "L", "i", "m", "i", "t", "e", "d">>) @@
    (<<"S", "A", "P", "P", "H", "I", "R", "E">> :>
        <<"S", "a", "p", "p", "h", "i", "r", "e", " ", "F", "o", "o", "d", "s", " ", "I", "n", "d", "i", "a", " ", "L", "i", "m", "i", "t", "e", "d">>) @@
    (<<"D", "E", "V", "Y", "A", "N", "I">> :>
        <<"D", "e", "v", "y", "a", "n", "i", " ", "I", "n", "t", "e", "r", "n", "a", "t", "i", "o", "n", "a", "l", " ", "L", "i", "m", "i", "t", "e", "d">>) @@
    (<<"B", "S", "O", "F", "T">> :>
        <<"K", "P", "I", "T", " ", "T", "e", "c", "h", "n", "o", "l", "o", "g", "i", "e", "s", " ", "L", "i", "m", "i", "t", "e", "d">>) @@
    (<<"S", "O", "N", "A", "C", "O", "M", "S">> :>
        <<"S", "o", "n", "a", " ", "B", "L", "W", " ", "P", "r", "e", "c", "i", "s", "i", "o", "n", " ", "F", "o", "r", "g", "i", "n", "g", "s", " ", "L", "i", "m", "i", "t", "e", "d">>) @@
    (<<"K", "P", "I", "T", "T", "E", "C", "H">> :>
        <<"K", "P", "I", "T", " ", "T", "e", "c", "h", "n", "o", "l", "o", "g", "i", "e", "s", " ", "L", "i", "m", "i", "t", "e", "d">>)

---------------------------------------------------------------------------
(* Units of the record's fields *)

RatioScale == 1000

YieldScale == 10

\* the clamp without its floor: score = min(10, score)
ClampNoFloor(score) == Min2(100, score)

\* score = max(0, min(10, score)), in tenths
Clamp(score) == Max2(0, Min2(100, score))

\* a strength or concern string: its fixed text and the figure embedded in it
Msg(text, fig) == <<text, fig>>

Plain(text) == <<text>>

---------------------------------------------------------------------------
(* ScoreCategory and QualityAnalyzer.CATEGORY_WEIGHTS (weights in hundredths) *)

PROFITABILITY == "Profitability & Margins"

GROWTH == "Growth & Revenue Stability"

FINANCIAL_HEALTH == "Financial Health & Leverage"

CASH_MANAGEMENT == "Cash Flow Management"

CAPITAL_EFFICIENCY == "Capital Efficiency & Returns"

QUALITY_EARNINGS == "Quality of Earnings"

GOVERNANCE == "Management & Governance Indicators"

CATEGORY_WEIGHTS ==
    (PROFITABILITY :> 20) @@ (GROWTH :> 15) @@ (FINANCIAL_HEALTH :> 20) @@
    (CASH_MANAGEMENT :> 15) @@ (CAPITAL_EFFICIENCY :> 15) @@
    (QUALITY_EARNINGS :> 10) @@ (GOVERNANCE :> 5)

QualityScore(category, score, strengths, concerns) ==
    [category |-> category, score |-> Clamp(score), weight |-> CATEGORY_WEIGHTS[category],
     strengths |-> strengths, concerns |-> concerns]

\* a scorer's running state: score, strengths, concerns
Start == [score |-> 50, strengths |-> <<>>, concerns |-> <<>>]

Strength(st, delta, m) ==
    [st EXCEPT !.score = @ + delta, !.strengths = Append(@, m)]

\* the score goes down and no concern is recorded
ConcernUnexplained(st, delta, m) ==
    [st EXCEPT !.score = @ - delta]

Concern(st, delta, m) ==
    [st EXCEPT !.score = @ - delta, !.concerns = Append(@, m)]

---------------------------------------------------------------------------
(* QualityAnalyzer._analyze_profitability *)

\* the ladder applied to the most recent margin instead of the average
ProfitabilityMarginLevelLatest(st, margins) ==
    LET s == margins[1]
        n == 1
    IN  IF s > 20 * n THEN Strength(st, 20, Msg("Strong operating margin of", Fmt1(s, n)))
        ELSE IF s > 15 * n THEN Strength(st, 10, Msg("Healthy operating margin of", Fmt1(s, n)))
        ELSE IF s < 5 * n THEN Concern(st, 20, Msg("Low operating margin of", Fmt1(s, n)))
        ELSE IF s < 10 * n THEN Concern(st, 10, Msg("Below-average operating margin of", Fmt1(s, n)))
        ELSE st

\* the ladder with its upper rungs reached at 20 and at 15
ProfitabilityMarginLevelInclusive(st, margins) ==
    LET s == Sum(margins)
        n == Len(margins)
    IN  IF s >= 20 * n THEN Strength(st, 20, Msg("Strong operating margin of", Fmt1(s, n)))
        ELSE IF s >= 15 * n THEN Strength(st, 10, Msg("Healthy operating margin of", Fmt1(s, n)))
        ELSE IF s < 5 * n THEN Concern(st, 20, Msg("Low operating margin of", Fmt1(s, n)))
        ELSE IF s < 10 * n THEN Concern(st, 10, Msg("Below-average operating margin of", Fmt1(s, n)))
        ELSE st

ProfitabilityMarginLevel(st, margins) ==
    LET s == Sum(margins)
        n == Len(margins)
    IN  IF s > 20 * n THEN Strength(st, 20, Msg("Strong operating margin of", Fmt1(s, n)))
        ELSE IF s > 15 * n THEN Strength(st, 10, Msg("Healthy operating margin of", Fmt1(s, n)))
        ELSE IF s < 5 * n THEN Concern(st, 20, Msg("Low operating margin of", Fmt1(s, n)))
        ELSE IF s < 10 * n THEN Concern(st, 10, Msg("Below-average operating margin of", Fmt1(s, n)))
        ELSE st

\* the trend rule penalising any decline
ProfitabilityMarginTrendAnyDecline(st, margins) ==
    IF Len(margins) >= 2
    THEN IF margins[1] > Last(margins)
         THEN Strength(st, 5, Plain("Improving operating margins over time"))
         ELSE IF margins[1] < Last(margins)
         THEN Concern(st, 5, Plain("Declining operating margins"))
         ELSE st
    ELSE st

ProfitabilityMarginTrend(st, margins) ==
    IF Len(margins) >= 2
    THEN IF margins[1] > Last(margins)
         THEN Strength(st, 5, Plain("Improving operating margins over time"))
         ELSE IF 10 * margins[1] < 9 * Last(margins)
         THEN Concern(st, 5, Plain("Declining operating margins"))
         ELSE st
    ELSE st

ProfitabilityNetMargin(st, net_margins) ==
    LET s == Sum(net_margins)
        n == Len(net_margins)
    IN  IF net_margins = <<>> THEN st
        ELSE IF s > 15 * n THEN Strength(st, 10, Msg("Excellent net profit margin of", Fmt1(s, n)))
        ELSE IF s < 0 THEN Concern(st, 20, Plain("Company is operating at a loss"))
        ELSE st

ProfitabilityRoe(st, roe_values) ==
    LET s == Sum(roe_values)
        n == Len(roe_values)
    IN  IF roe_values = <<>> THEN st
        ELSE IF s > 20 * n
        THEN Strength(st, 10, Msg("High ROE indicates efficient equity usage", Fmt1(s, n)))
        ELSE IF s < 10 * n THEN Concern(st, 5, Msg("Low ROE of", Fmt1(s, n)))
        ELSE st

_analyze_profitability(data) ==
    LET a == IF data.operating_margin # <<>>
             THEN ProfitabilityMarginTrend(
                      ProfitabilityMarginLevel(Start, data.operating_margin),
                      data.operating_margin)
             ELSE Start
        b == ProfitabilityNetMargin(a, data.net_margin)
        c == ProfitabilityRoe(b, data.roe)
    IN  QualityScore(PROFITABILITY, c.score, c.strengths, c.concerns)

---------------------------------------------------------------------------
(* QualityAnalyzer._analyze_growth *)

\* ((first / last) ** (1/n) - 1) * 100 compared with pct, for last > 0 and a real
\* root: first/last > (1 + pct/100)^n
RECURSIVE GCD(_, _)
GCD(a, b) == IF b = 0 THEN a ELSE GCD(b, a % b)

\* (1 + pct/100) in lowest terms, which keeps the powers within the integers
GrowthFactor(pct) ==
    [num |-> (100 + pct) \div GCD(100 + pct, 100), den |-> 100 \div GCD(100 + pct, 100)]

CagrAbove(first, last, n, pct) ==
    first * Pow(GrowthFactor(pct).den, n) > last * Pow(GrowthFactor(pct).num, n)

CagrBelow(first, last, n, pct) ==
    first * Pow(GrowthFactor(pct).den, n) < last * Pow(GrowthFactor(pct).num, n)

\* the CAGR as a number of tenths of a percent is only ever embedded in a message;
\* the message keeps the rung that produced it
GrowthRevenueCagr(st, revenues) ==
    LET first == revenues[1]
        last == Last(revenues)
        n == Len(revenues) - 1
    IN  IF first # 0 /\ last # 0 /\ last > 0
        THEN IF CagrAbove(first, last, n, 20)
             THEN Strength(st, 20, Plain("Excellent revenue CAGR"))
             ELSE IF CagrAbove(first, last, n, 10)
             THEN Strength(st, 10, Plain("Strong revenue CAGR"))
             ELSE IF CagrBelow(first, last, n, 0)
             THEN Concern(st, 20, Plain("Declining revenue"))
             ELSE IF CagrBelow(first, last, n, 5)
             THEN Concern(st, 5, Plain("Slow revenue growth"))
             ELSE st
        ELSE st

\* the positions i with revenues[i+1] > 0, whose year-over-year rate is computed
GrowthRates(revenues) == {i \in 1..(Len(revenues) - 1) : revenues[i + 1] > 0}

GrowthConsistency(st, revenues) ==
    LET rates == GrowthRates(revenues)
        positive_years == Cardinality({i \in rates : revenues[i] - revenues[i + 1] > 0})
    IN  IF rates = {} THEN st
        ELSE IF positive_years = Cardinality(rates)
        THEN Strength(st, 10, Plain("Consistent revenue growth across all analyzed years"))
        ELSE IF 2 * positive_years < Cardinality(rates)
        THEN Concern(st, 0, Plain("Inconsistent revenue growth"))
        ELSE st

GrowthProfit(st, profits) ==
    LET first == profits[1]
        last == Last(profits)
        n == Len(profits) - 1
    IN  IF Len(profits) >= 2 /\ first # 0 /\ last # 0 /\ last > 0 /\ first > 0
        THEN IF CagrAbove(first, last, n, 25)
             THEN Strength(st, 10, Plain("Strong profit growth"))
             ELSE IF CagrBelow(first, last, n, -10)
             THEN Concern(st, 15, Plain("Declining profits"))
             ELSE st
        ELSE st

\* a negative base under a fractional exponent is a complex number in Python, and
\* comparing it with 20 raises TypeError
GrowthRaises(data) ==
    LET revenues == data.revenue
    IN  /\ Len(revenues) >= 2
        /\ revenues[1] # 0 /\ Last(revenues) > 0
        /\ revenues[1] < 0
        /\ Len(revenues) - 1 >= 2

_analyze_growth(data) ==
    LET a == IF Len(data.revenue) >= 2
             THEN GrowthConsistency(GrowthRevenueCagr(Start, data.revenue), data.revenue)
             ELSE Start
        b == GrowthProfit(a, data.net_income)
    IN  QualityScore(GROWTH, b.score, b.strengths, b.concerns)

---------------------------------------------------------------------------
(* QualityAnalyzer._analyze_financial_health *)

HealthDebtLevel(st, de_values) ==
    LET s == Sum(de_values)
        n == Len(de_values)
    IN  IF 10 * s < 3 * RatioScale * n
        THEN Strength(st, 20, Msg("Very low debt levels (D/E)", Fmt2(s, RatioScale * n)))
        ELSE IF 10 * s < 5 * RatioScale * n
        THEN Strength(st, 10, Msg("Conservative debt levels (D/E)", Fmt2(s, RatioScale * n)))
        ELSE IF 10 * s > 15 * RatioScale * n
        THEN Concern(st, 20, Msg("High leverage (D/E)", Fmt2(s, RatioScale * n)))
        ELSE IF s > 1 * RatioScale * n
        THEN Concern(st, 10, Msg("Elevated debt levels (D/E)", Fmt2(s, RatioScale * n)))
        ELSE st

HealthDebtTrend(st, de_values) ==
    IF Len(de_values) >= 2 /\ 10 * de_values[1] > 13 * Last(de_values)
    THEN Concern(st, 5, Plain("Increasing leverage over time"))
    ELSE st

HealthInterestCoverage(st, ic_values) ==
    LET s == Sum(ic_values)
        n == Len(ic_values)
    IN  IF ic_values = <<>> THEN st
        ELSE IF s > 10 * n THEN Strength(st, 10, Msg("Excellent interest coverage", Fmt1(s, n)))
        ELSE IF s < 2 * n
        THEN Concern(st, 20, Msg("Low interest coverage - potential debt servicing risk", Fmt1(s, n)))
        ELSE IF s < 3 * n THEN Concern(st, 10, Msg("Moderate interest coverage", Fmt1(s, n)))
        ELSE st

HealthCurrentRatio(st, cr_values) ==
    LET s == Sum(cr_values)
        n == Len(cr_values)
    IN  IF cr_values = <<>> THEN st
        ELSE IF s > 2 * RatioScale * n
        THEN Strength(st, 5, Msg("Strong liquidity position (Current Ratio)", Fmt2(s, RatioScale * n)))
        ELSE IF s < 1 * RatioScale * n
        THEN Concern(st, 15, Msg("Liquidity concerns (Current Ratio)", Fmt2(s, RatioScale * n)))
        ELSE st

\* latest_debt == 0 or (latest_equity > 0 and latest_debt / latest_equity < 0.1)
HealthDebtFree(st, total_debt, shareholders_equity) ==
    IF total_debt # <<>> /\ shareholders_equity # <<>>
    THEN LET latest_debt == total_debt[1]
             latest_equity == shareholders_equity[1]
         IN  IF latest_debt = 0 \/ (latest_equity > 0 /\ 10 * latest_debt < latest_equity)
             THEN Strength(st, 10, Plain("Debt-free or minimal debt balance sheet"))
             ELSE st
    ELSE st

_analyze_financial_health(data) ==
    LET a == IF data.debt_to_equity # <<>>
             THEN HealthDebtTrend(HealthDebtLevel(Start, data.debt_to_equity),
                                  data.debt_to_equity)
             ELSE Start
        b == HealthInterestCoverage(a, data.interest_coverage)
        c == HealthCurrentRatio(b, data.current_ratio)
        d == HealthDebtFree(c, data.total_debt, data.shareholders_equity)
    IN  QualityScore(FINANCIAL_HEALTH, d.score, d.strengths, d.concerns)

---------------------------------------------------------------------------
(* QualityAnalyzer._analyze_cash_management *)

CashOcfConsistency(st, ocf_values) ==
    LET positive_ocf == CountPositive(ocf_values)
    IN  IF positive_ocf = Len(ocf_values)
        THEN Strength(st, 20, Plain("Consistently positive operating cash flow"))
        ELSE IF 2 * positive_ocf < Len(ocf_values)
        THEN Concern(st, 20, Plain("Inconsistent or negative operating cash flows"))
        ELSE st

CashOcfTrend(st, ocf_values) ==
    IF Len(ocf_values) >= 2
    THEN IF 2 * ocf_values[1] > 3 * Last(ocf_values)
         THEN Strength(st, 5, Plain("Growing operating cash flow"))
         ELSE IF 10 * ocf_values[1] < 7 * Last(ocf_values)
         THEN Concern(st, 0, Plain("Declining operating cash flow"))
         ELSE st
    ELSE st

CashOcfVsNetIncome(st, ocf_list, ni_list) ==
    IF ocf_list # <<>> /\ ni_list # <<>>
    THEN LET years_with_both == Min2(Len(ocf_list), Len(ni_list))
             ocf_greater == Cardinality({i \in 1..years_with_both :
                                            ni_list[i] > 0 /\ ocf_list[i] > ni_list[i]})
         IN  IF ocf_greater = years_with_both
             THEN Strength(st, 10, Plain("OCF consistently exceeds net income - high earnings quality"))
             ELSE IF /\ 2 * ocf_greater < years_with_both
                     /\ \A i \in 1..years_with_both : ni_list[i] > 0
             THEN Concern(st, 10, Plain("Net income often exceeds OCF - potential earnings quality issue"))
             ELSE st
    ELSE st

CashFreeCashFlow(st, fcf_values) ==
    LET positive_fcf == CountPositive(fcf_values)
    IN  IF fcf_values = <<>> THEN st
        ELSE IF positive_fcf = Len(fcf_values)
        THEN Strength(st, 10, Plain("Consistently positive free cash flow"))
        ELSE IF positive_fcf = 0
        THEN Concern(st, 10, Plain("Negative free cash flow across all years"))
        ELSE st

_analyze_cash_management(data) ==
    LET a == IF data.operating_cash_flow # <<>>
             THEN CashOcfTrend(CashOcfConsistency(Start, data.operating_cash_flow),
                               data.operating_cash_flow)
             ELSE Start
        b == CashOcfVsNetIncome(a, data.operating_cash_flow, data.net_income)
        c == CashFreeCashFlow(b, data.free_cash_flow)
    IN  QualityScore(CASH_MANAGEMENT, c.score, c.strengths, c.concerns)

---------------------------------------------------------------------------
(* QualityAnalyzer._analyze_capital_efficiency *)

CapitalRoceLevel(st, roce_values) ==
    LET s == Sum(roce_values)
        n == Len(roce_values)
    IN  IF s > 20 * n
        THEN Strength(st, 20, Msg("Excellent ROCE - efficient capital deployment", Fmt1(s, n)))
        ELSE IF s > 15 * n THEN Strength(st, 10, Msg("Good ROCE of", Fmt1(s, n)))
        ELSE IF s < 8 * n
        THEN Concern(st, 15, Msg("Low ROCE - poor capital efficiency", Fmt1(s, n)))
        ELSE IF s < 10 * n THEN Concern(st, 5, Msg("Below-average ROCE of", Fmt1(s, n)))
        ELSE st

CapitalRoceConsistency(st, roce_values) ==
    IF Len(roce_values) >= 3 /\ \A i \in DOMAIN roce_values : roce_values[i] > 15
    THEN Strength(st, 5, Plain("Consistently high returns on capital employed"))
    ELSE st

CapitalRoa(st, roa_values) ==
    LET s == Sum(roa_values)
        n == Len(roa_values)
    IN  IF roa_values = <<>> THEN st
        ELSE IF s > 10 * n THEN Strength(st, 10, Msg("Strong ROA of", Fmt1(s, n)))
        ELSE IF s < 3 * n THEN Concern(st, 10, Msg("Low ROA of", Fmt1(s, n)))
        ELSE st

\* sum over the years of yrs of revenue[y] / total_assets[y], as <<numerator, denominator>>
RECURSIVE TurnoverSum(_, _, _)
TurnoverSum(revenue, total_assets, yrs) ==
    IF yrs = {} THEN <<0, 1>>
    ELSE LET y == CHOOSE x \in yrs : TRUE
             rest == TurnoverSum(revenue, total_assets, yrs \ {y})
         IN  <<rest[1] * total_assets[y] + revenue[y] * rest[2], rest[2] * total_assets[y]>>

CapitalAssetTurnover(st, revenue, total_assets) ==
    LET years == (DOMAIN revenue) \cap (DOMAIN total_assets)
        turnovers == {y \in years : total_assets[y] > 0}
        k == Cardinality(turnovers)
        t == TurnoverSum(revenue, total_assets, turnovers)
    IN  IF revenue # <<>> /\ total_assets # <<>> /\ turnovers # {}
        THEN IF 10 * t[1] > 15 * k * t[2]
             THEN Strength(st, 0, Msg("High asset turnover", Fmt2(t[1], k * t[2])))
             ELSE IF 10 * t[1] < 3 * k * t[2]
             THEN Concern(st, 0, Msg("Low asset utilization", Fmt2(t[1], k * t[2])))
             ELSE st
        ELSE st

_analyze_capital_efficiency(data) ==
    LET a == IF data.roce # <<>>
             THEN CapitalRoceConsistency(CapitalRoceLevel(Start, data.roce), data.roce)
             ELSE Start
        b == CapitalRoa(a, data.roa)
        c == CapitalAssetTurnover(b, data.revenue, data.total_assets)
    IN  QualityScore(CAPITAL_EFFICIENCY, c.score, c.strengths, c.concerns)

---------------------------------------------------------------------------
(* QualityAnalyzer._analyze_earnings_quality *)

\* the years of the accruals loop: i < min(len) with ni_list[i] > 0
AccrualYears(ocf_list, ni_list) ==
    {i \in 1..Min2(Len(ocf_list), Len(ni_list)) : ni_list[i] > 0}

RECURSIVE SumOver(_, _)
SumOver(s, idx) ==
    IF idx = {} THEN 0
    ELSE LET i == CHOOSE x \in idx : TRUE IN s[i] + SumOver(s, idx \ {i})

\* total_accruals: the sum of ni - ocf over the accrual years
ScorerAccruals(ocf_list, ni_list) ==
    SumOver(ni_list, AccrualYears(ocf_list, ni_list))
        - SumOver(ocf_list, AccrualYears(ocf_list, ni_list))

\* total_ocf of the scorer: the sum of ocf over the accrual years
ScorerTotalOcf(ocf_list, ni_list) == SumOver(ocf_list, AccrualYears(ocf_list, ni_list))

EarningsAccruals(st, ocf_list, ni_list) ==
    LET total_accruals == ScorerAccruals(ocf_list, ni_list)
        total_ocf == ScorerTotalOcf(ocf_list, ni_list)
    IN  IF ocf_list # <<>> /\ ni_list # <<>> /\ total_ocf > 0
        THEN IF total_accruals < 0
             THEN Strength(st, 20, Plain("High cash conversion - earnings backed by cash"))
             ELSE IF 10 * total_accruals > 5 * total_ocf
             THEN Concern(st, 20, Plain("High accruals - earnings quality concerns"))
             ELSE IF 10 * total_accruals > 3 * total_ocf
             THEN Concern(st, 10, Plain("Moderate accruals in earnings"))
             ELSE st
        ELSE st

\* n^3 * variance: the sum of (n*p - sum)^2
RECURSIVE SquaredDeviations(_, _, _)
SquaredDeviations(profits, n, total) ==
    IF profits = <<>> THEN 0
    ELSE (n * Head(profits) - total) * (n * Head(profits) - total)
             + SquaredDeviations(Tail(profits), n, total)

\* cv = std_dev / avg_profit; cv^2 = SquaredDeviations / (n * total^2)
EarningsVolatility(st, profits) ==
    LET n == Len(profits)
        total == Sum(profits)
        dev == SquaredDeviations(profits, n, total)
    IN  IF n >= 3 /\ total > 0
        THEN IF 25 * dev < n * total * total
             THEN Strength(st, 10, Plain("Stable and predictable earnings"))
             ELSE IF 4 * dev > n * total * total
             THEN Concern(st, 10, Plain("High earnings volatility"))
             ELSE st
        ELSE st

EarningsMarginStability(st, margins) ==
    IF Len(margins) >= 2
    THEN LET margin_range == SeqMax(margins) - SeqMin(margins)
         IN  IF margin_range < 3
             THEN Strength(st, 5, Plain("Stable margins indicating consistent business model"))
             ELSE IF margin_range > 10
             THEN Concern(st, 0, Plain("Volatile margins - business model stability concerns"))
             ELSE st
    ELSE st

\* one part of the detailed explanation: a title, its figure, its label
Part(title, fig, label) == <<title, fig, label>>

\* total_ocf of the explanation: sum(ocf_list), every year of the series
ExplanationTotalOcf(ocf_list) == Sum(ocf_list)

\* f"Accruals Ratio: {accrual_ratio:.2f} ({label})", the ratio in hundredths
ExplanationAccruals(ocf_list, ni_list) ==
    LET total_accruals == ScorerAccruals(ocf_list, ni_list)
        total_ocf == ExplanationTotalOcf(ocf_list)
    IN  IF ocf_list # <<>> /\ ni_list # <<>> /\ total_ocf > 0
        THEN <<Part("Accruals Ratio", Fmt2(total_accruals, total_ocf),
                    IF 10 * total_accruals < total_ocf THEN "low - high cash quality"
                    ELSE IF 10 * total_accruals < 3 * total_ocf THEN "moderate"
                    ELSE "high - quality concerns")>>
        ELSE <<>>

\* the largest r in lo..hi with r * r <= x
RECURSIVE IsqrtBetween(_, _, _)
IsqrtBetween(x, lo, hi) ==
    IF lo >= hi THEN lo
    ELSE LET mid == (lo + hi + 1) \div 2
         IN  IF mid * mid <= x THEN IsqrtBetween(x, mid, hi)
             ELSE IsqrtBetween(x, lo, mid - 1)

\* cv to two decimals, in hundredths: cv^2 = dev / (n * total^2)
Cv2(dev, n, total) ==
    LET g == GCD(dev, n * total * total)
        twice == IsqrtBetween((40000 * (dev \div g)) \div ((n * total * total) \div g), 0, 46340)
    IN  (twice + 1) \div 2

\* f"Earnings Volatility (CV): {cv:.2f} ({label})"
ExplanationVolatility(profits) ==
    LET n == Len(profits)
        total == Sum(profits)
        dev == SquaredDeviations(profits, n, total)
    IN  IF n >= 3 /\ total > 0
        THEN <<Part("Earnings Volatility (CV)", Cv2(dev, n, total),
                    IF 25 * dev < n * total * total THEN "stable"
                    ELSE IF 4 * dev < n * total * total THEN "moderate"
                    ELSE "volatile")>>
        ELSE <<>>

\* f"Margin Stability: {margin_range:.1f}% range ({label})", in tenths
ExplanationMarginStability(margins) ==
    IF Len(margins) >= 2
    THEN LET margin_range == SeqMax(margins) - SeqMin(margins)
         IN  <<Part("Margin Stability", Fmt1(margin_range, 1),
                    IF margin_range < 3 THEN "consistent"
                    ELSE IF margin_range < 10 THEN "variable"
                    ELSE "volatile")>>
    ELSE <<>>

\* detailed_explanation: the parts and the closing verdict on the clamped score
EarningsExplanation(data, score) ==
    LET explanation_parts ==
            ExplanationAccruals(data.operating_cash_flow, data.net_income)
                \o ExplanationVolatility(data.net_income)
                \o ExplanationMarginStability(data.operating_margin)
    IN  IF explanation_parts # <<>>
        THEN [parts |-> explanation_parts,
              overall |-> IF score >= 75 THEN "excellent"
                          ELSE IF score >= 65 THEN "strong"
                          ELSE IF score >= 55 THEN "acceptable"
                          ELSE "concerning"]
        ELSE [parts |-> <<>>,
              overall |-> "Assessment of earnings sustainability and accounting quality."]

_analyze_earnings_quality(data) ==
    LET a == EarningsAccruals(Start, data.operating_cash_flow, data.net_income)
        b == EarningsVolatility(a, data.net_income)
        c == EarningsMarginStability(b, data.operating_margin)
        q == QualityScore(QUALITY_EARNINGS, c.score, c.strengths, c.concerns)
    IN  [category |-> q.category, score |-> q.score, weight |-> q.weight,
         strengths |-> q.strengths, concerns |-> q.concerns,
         explanation |-> EarningsExplanation(data, q.score)]

---------------------------------------------------------------------------
(* QualityAnalyzer._analyze_governance *)

GovernanceDividend(st, dividend_yield) ==
    IF dividend_yield # 0
    THEN IF dividend_yield > 2 * YieldScale
         THEN Strength(st, 10, Msg("Regular dividend payer", Fmt1(dividend_yield, YieldScale)))
         ELSE IF 10 * dividend_yield > 5 * YieldScale
         THEN Strength(st, 0, Plain("Maintains dividend payments"))
         ELSE st
    ELSE st

GovernanceReporting(st, revenue, years_analyzed) ==
    IF revenue # <<>> /\ Len(revenue) >= years_analyzed
    THEN Strength(st, 5, Plain("Consistent financial reporting"))
    ELSE st

GovernanceFcf(st, fcf_values) ==
    IF fcf_values # <<>> /\ CountPositive(fcf_values) = Len(fcf_values)
    THEN Strength(st, 10, Plain("Positive FCF indicates disciplined capital allocation"))
    ELSE st

\* years with ni > 0, ocf > 0 and ni > ocf * num/den
ConcernYears(ni_list, ocf_list, num, den) ==
    Cardinality({i \in 1..Min2(Len(ni_list), Len(ocf_list)) :
                    /\ ni_list[i] > 0 /\ ocf_list[i] > 0
                    /\ den * ni_list[i] > num * ocf_list[i]})

GovernanceAccounting(st, ni_list, ocf_list) ==
    IF ni_list # <<>> /\ ocf_list # <<>> /\ ConcernYears(ni_list, ocf_list, 15, 10) >= 2
    THEN Concern(st, 10, Plain("Pattern of net income significantly exceeding cash flow"))
    ELSE st

_analyze_governance(data) ==
    LET a == GovernanceDividend(Start, data.dividend_yield)
        b == GovernanceReporting(a, data.revenue, data.years_analyzed)
        c == GovernanceFcf(b, data.free_cash_flow)
        d == GovernanceAccounting(c, data.net_income, data.operating_cash_flow)
    IN  QualityScore(GOVERNANCE, d.score, d.strengths, d.concerns)

---------------------------------------------------------------------------
(* QualityAnalyzer._calculate_overall_score, in tenths *)

RECURSIVE WeightedSum(_)
WeightedSum(category_scores) ==
    IF category_scores = <<>> THEN 0
    ELSE Head(category_scores).score * Head(category_scores).weight
             + WeightedSum(Tail(category_scores))

RECURSIVE TotalWeight(_)
TotalWeight(category_scores) ==
    IF category_scores = <<>> THEN 0
    ELSE Head(category_scores).weight + TotalWeight(Tail(category_scores))

\* round(total_score / total_weight, 1).  The quotient is a float: when the exact
\* mean lies half-way between two tenths the accumulated rounding error of the
\* float sum decides the side, so half_up is an input of the call.
_calculate_overall_score(category_scores, half_up) ==
    LET total_score == WeightedSum(category_scores)
        total_weight == TotalWeight(category_scores)
        q == total_score \div total_weight
        r == total_score % total_weight
    IN  IF total_weight > 0
        THEN IF 2 * r < total_weight THEN q
             ELSE IF 2 * r > total_weight THEN q + 1
             ELSE IF half_up THEN q + 1 ELSE q
        ELSE 50

---------------------------------------------------------------------------
(* QualityAnalyzer._identify_key_strengths *)

\* the categories left in analysis order
Unsorted(category_scores) == category_scores

\* sorted(category_scores, key=score, reverse=True): stable, so equal scores keep
\* their list order
SortedByScore(category_scores) ==
    LET n == Len(category_scores)
        Before(i, j) == \/ category_scores[i].score > category_scores[j].score
                        \/ (category_scores[i].score = category_scores[j].score /\ i < j)
        Rank(i) == 1 + Cardinality({j \in 1..n : Before(j, i)})
    IN  [k \in 1..n |-> category_scores[CHOOSE i \in 1..n : Rank(i) = k]]

\* f"[{cs.category}] {strength}"
Tagged(category, strengths) ==
    [i \in DOMAIN strengths |-> <<category>> \o strengths[i]]

RECURSIVE AllStrengths(_)
AllStrengths(sorted_scores) ==
    IF sorted_scores = <<>> THEN <<>>
    ELSE Tagged(Head(sorted_scores).category, Head(sorted_scores).strengths)
             \o AllStrengths(Tail(sorted_scores))

_identify_key_strengths(category_scores) ==
    Prefix(AllStrengths(SortedByScore(category_scores)), 8)

---------------------------------------------------------------------------
(* QualityAnalyzer._identify_red_flags *)

RedFlag(severity, category, description) ==
    [severity |-> severity, category |-> category, description |-> description]

\* the rule asking for two declines in a row
FlagRevenueDeclineConsecutive(revenues) ==
    IF /\ Len(revenues) >= 3
       /\ \E i \in 1..(Len(revenues) - 2) :
              revenues[i] < revenues[i + 1] /\ revenues[i + 1] < revenues[i + 2]
    THEN <<RedFlag("High", "Growth",
                   Plain("Revenue declining for multiple consecutive years"))>>
    ELSE <<>>

FlagRevenueDecline(revenues) ==
    LET declining_years ==
            Cardinality({i \in 1..(Len(revenues) - 1) : revenues[i] < revenues[i + 1]})
    IN  IF Len(revenues) >= 3 /\ declining_years >= 2
        THEN <<RedFlag("High", "Growth",
                       Plain("Revenue declining for multiple consecutive years"))>>
        ELSE <<>>

\* the rule asking for at least two years of losses
FlagUnprofitableMultiYear(profits) ==
    IF Len(profits) >= 2 /\ \A i \in DOMAIN profits : profits[i] < 0
    THEN <<RedFlag("High", "Profitability",
                   Plain("Company has been consistently unprofitable"))>>
    ELSE <<>>

FlagUnprofitable(profits) ==
    IF profits # <<>> /\ \A i \in DOMAIN profits : profits[i] < 0
    THEN <<RedFlag("High", "Profitability",
                   Plain("Company has been consistently unprofitable"))>>
    ELSE <<>>

\* the rule with the High band starting at 3 instead of above 3
FlagDebtHighFromThree(de_values) ==
    IF de_values # <<>> /\ de_values[1] > 2 * RatioScale
    THEN <<RedFlag(IF de_values[1] >= 3 * RatioScale THEN "High" ELSE "Medium",
                   "Financial Health",
                   Msg("High debt-to-equity ratio of", Fmt2(de_values[1], RatioScale)))>>
    ELSE <<>>

FlagDebt(de_values) ==
    IF de_values # <<>> /\ de_values[1] > 2 * RatioScale
    THEN <<RedFlag(IF de_values[1] > 3 * RatioScale THEN "High" ELSE "Medium",
                   "Financial Health",
                   Msg("High debt-to-equity ratio of", Fmt2(de_values[1], RatioScale)))>>
    ELSE <<>>

\* the rule without its test that the series holds a value
FlagNegativeOcfUnguarded(ocf_values) ==
    IF 2 * CountNegative(ocf_values) >= Len(ocf_values)
    THEN <<RedFlag("High", "Cash Management",
                   Plain("Negative operating cash flow in multiple years"))>>
    ELSE <<>>

FlagNegativeOcf(ocf_values) ==
    IF ocf_values # <<>> /\ 2 * CountNegative(ocf_values) >= Len(ocf_values)
    THEN <<RedFlag("High", "Cash Management",
                   Plain("Negative operating cash flow in multiple years"))>>
    ELSE <<>>

\* the rule counting every year with net income >= 2 x operating cash flow,
\* whatever the signs
FlagEarningsQualityAnySign(ni_list, ocf_list) ==
    IF Cardinality({i \in 1..Min2(Len(ni_list), Len(ocf_list)) :
                       ni_list[i] >= 2 * ocf_list[i]}) >= 2
    THEN <<RedFlag("Medium", "Earnings Quality",
                   Plain("Net income significantly exceeds operating cash flow"))>>
    ELSE <<>>

FlagEarningsQuality(ni_list, ocf_list) ==
    IF ni_list # <<>> /\ ocf_list # <<>> /\ ConcernYears(ni_list, ocf_list, 2, 1) >= 2
    THEN <<RedFlag("Medium", "Earnings Quality",
                   Plain("Net income significantly exceeds operating cash flow"))>>
    ELSE <<>>

\* the rule surfacing the concerns of a category that scores 4 or less
RECURSIVE FlagLowScoresAtFour(_)
FlagLowScoresAtFour(category_scores) ==
    IF category_scores = <<>> THEN <<>>
    ELSE LET cs == Head(category_scores)
             first == Prefix(cs.concerns, 2)
         IN  (IF cs.score <= 40
              THEN [i \in DOMAIN first |-> RedFlag("Medium", cs.category, first[i])]
              ELSE <<>>)
                 \o FlagLowScoresAtFour(Tail(category_scores))

\* for cs in category_scores: if cs.score < 4: for concern in cs.concerns[:2]
RECURSIVE FlagLowScores(_)
FlagLowScores(category_scores) ==
    IF category_scores = <<>> THEN <<>>
    ELSE LET cs == Head(category_scores)
             first == Prefix(cs.concerns, 2)
         IN  (IF cs.score < 40
              THEN [i \in DOMAIN first |-> RedFlag("Medium", cs.category, first[i])]
              ELSE <<>>)
                 \o FlagLowScores(Tail(category_scores))

_identify_red_flags(data, category_scores) ==
    FlagRevenueDecline(data.revenue)
        \o FlagUnprofitable(data.net_income)
        \o FlagDebt(data.debt_to_equity)
        \o FlagNegativeOcf(data.operating_cash_flow)
        \o FlagEarningsQuality(data.net_income, data.operating_cash_flow)
        \o FlagLowScores(category_scores)

---------------------------------------------------------------------------
(* QualityAnalyzer.analyze *)

NoReport == [kind |-> "none"]

\* the call ended in an exception instead of returning a report
Raised == [kind |-> "raised"]

CategoryScores(data) ==
    << _analyze_profitability(data), _analyze_growth(data),
       _analyze_financial_health(data), _analyze_cash_management(data),
       _analyze_capital_efficiency(data), _analyze_earnings_quality(data),
       _analyze_governance(data) >>

analyze(data, half_up) ==
    IF GrowthRaises(data) THEN Raised
    ELSE LET category_scores == CategoryScores(data)
         IN  [kind |-> "report",
              category_scores |-> category_scores,
              overall_score |-> _calculate_overall_score(category_scores, half_up),
              key_strengths |-> _identify_key_strengths(category_scores),
              red_flags |-> _identify_red_flags(data, category_scores)]

---------------------------------------------------------------------------
(* FinancialData: the series QualityAnalyzer reads, and the sample values an   *)
(* adapter may store in each (in the field's unit)                             *)

SeriesFields ==
    {"operating_margin", "net_margin", "roe", "revenue", "net_income",
     "debt_to_equity", "interest_coverage", "current_ratio", "total_debt",
     "shareholders_equity", "operating_cash_flow", "free_cash_flow", "roce", "roa",
     "total_assets"}

FieldValues ==
    [f \in SeriesFields |->
        CASE f = "operating_margin" -> {3, 12, 22}
          [] f = "net_margin" -> {-2, 16}
          [] f = "roe" -> {8, 25}
          [] f = "revenue" -> {-5, 100, 130}
          [] f = "net_income" -> {-4, 5, 12}
          [] f = "debt_to_equity" -> {200, 1800, 3500}
          [] f = "interest_coverage" -> {1, 12}
          [] f = "current_ratio" -> {800, 2500}
          [] f = "total_debt" -> {0, 50}
          [] f = "shareholders_equity" -> {-10, 100}
          [] f = "operating_cash_flow" -> {-3, 6, 20}
          [] f = "free_cash_flow" -> {-2, 4}
          [] f = "roce" -> {6, 22}
          [] f = "roa" -> {2, 12}
          [] f = "total_assets" -> {0, 60}]

DividendYields == {8, 30}

YearsRequested == {1, 3}

\* FinancialData(company_name, ticker, years_analyzed): every series an empty dict,
\* dividend_yield 0.0
EmptyRecord(years) ==
    [f \in SeriesFields |-> <<>>] @@ [years_analyzed |-> years, dividend_yield |-> 0]

\* number of values stored in the record
RECURSIVE CellsOf(_, _)
CellsOf(data, fields) ==
    IF fields = {} THEN 0
    ELSE LET f == CHOOSE x \in fields : TRUE
         IN  Len(data[f]) + CellsOf(data, fields \ {f})

Cells(data) == CellsOf(data, SeriesFields) + (IF data.dividend_yield # 0 THEN 1 ELSE 0)

MaxCells == 3

---------------------------------------------------------------------------
(* Specification of the analyzer: an adapter fills a record, analyze scores it *)

Idle == [kind |-> "idle"]

InitAnalyze ==
    /\ \E y \in YearsRequested : rec = EmptyRecord(y)
    /\ report = NoReport
    /\ fetchers = <<>> /\ call = Idle /\ reordered = FALSE
    /\ vin = Idle /\ vout = Idle

\* fin_data.<field>[year_label] = value, during the adapter's fetch
Populate ==
    /\ Cells(rec) < MaxCells
    /\ \E f \in SeriesFields : \E v \in FieldValues[f] :
           rec' = [rec EXCEPT ![f] = Append(@, v)]
    /\ report' = NoReport
    /\ UNCHANGED <<fetchers, call, reordered, vin, vout>>

\* fin_data.dividend_yield = value
PopulateDividend ==
    /\ Cells(rec) < MaxCells
    /\ rec.dividend_yield = 0
    /\ \E dy \in DividendYields : rec' = [rec EXCEPT !.dividend_yield = dy]
    /\ report' = NoReport
    /\ UNCHANGED <<fetchers, call, reordered, vin, vout>>

Analyze ==
    /\ report = NoReport
    /\ \E half_up \in BOOLEAN : report' = analyze(rec, half_up)
    /\ UNCHANGED <<rec, fetchers, call, reordered, vin, vout>>

NextAnalyze == Populate \/ PopulateDividend \/ Analyze

SpecAnalyze == InitAnalyze /\ [][NextAnalyze]_vars

---------------------------------------------------------------------------
(* Claims about QualityAnalyzer *)

Returned == report.kind = "report"

\* C1: every category score analyze returns is at least 0 and at most 10
\* (0 and 100 tenths), whatever series of the record are populated.
C1_ScoresInRange ==
    Returned =>
        \A i \in DOMAIN report.category_scores :
            /\ report.category_scores[i].score >= 0
            /\ report.category_scores[i].score <= 100

\* C1 witness: a returned report whose Financial Health adjustments add up to
\* less than zero (high leverage, low interest coverage, low current ratio), so
\* that the clamp decides the score.
C1_Witness ==
    /\ Returned
    /\ report.category_scores[3].score = 0
    /\ Len(report.category_scores[3].concerns) = 3
    /\ report.category_scores[3].strengths = <<>>

FixedWeights == <<20, 15, 20, 15, 15, 10, 5>>

\* the overall score is a tenth nearest to the exact weighted mean
OverallIsRoundedMean ==
    LET cs == report.category_scores
    IN  /\ Len(cs) = 7
        /\ \A i \in 1..7 : cs[i].weight = FixedWeights[i]
        /\ Sum(FixedWeights) = 100
        /\ 100 * report.overall_score - WeightedSum(cs) <= 50
        /\ WeightedSum(cs) - 100 * report.overall_score <= 50

\* C2: every analyze call returns exactly seven category scores carrying the
\* weights 0.20, 0.15, 0.20, 0.15, 0.15, 0.10, 0.05 (sum 1.0), and overall_score
\* is their weighted mean rounded to one decimal.
C2_AlwaysSevenWeighted ==
    report # NoReport => (Returned /\ OverallIsRoundedMean)

---------------------------------------------------------------------------
(* data_fetcher.py: the adapters and MultiSourceFetcher *)

None == [kind |-> "none"]

\* an exception leaving a call
Exception == [kind |-> "raise"]

\* isinstance(f, ...) is decided by the adapter's class
SCREENER == "ScreenerInFetcher"

YAHOO == "YahooFinanceFetcher"

FMP == "FMPFetcher"

AUTO == <<"a", "u", "t", "o">>

INDIA == <<"i", "n", "d", "i", "a">>

GLOBAL == <<"g", "l", "o", "b", "a", "l">>

US == <<"u", "s">>

\* the fields of FinancialData that identify a record and decide whether it is usable
FinancialData(ticker, years_analyzed, data_source, revenue, net_income) ==
    [kind |-> "record", ticker |-> ticker, years_analyzed |-> years_analyzed,
     data_source |-> data_source, revenue |-> revenue, net_income |-> net_income]

\* a fetch loop that accepts a record only when both series hold figures
UsableBoth(data) ==
    /\ data.kind = "record"
    /\ data.revenue # <<>>
    /\ data.net_income # <<>>

\* data and (data.revenue or data.net_income)
Usable(data) ==
    /\ data.kind = "record"
    /\ (data.revenue # <<>> \/ data.net_income # <<>>)

\* a resolver that emits the secondary-exchange form first
_resolve_ticker_bo_first(company_identifier) ==
    LET ticker == Strip(Upper(company_identifier))
    IN  IF Contains(ticker, NS) \/ Contains(ticker, BO) \/ Contains(ticker, DOT)
        THEN <<ticker>>
        ELSE (IF ticker \in YahooFinanceFetcher_INDIAN_TICKERS
              THEN <<ticker \o BO, ticker \o NS>>
              ELSE <<>>) \o <<ticker>>

_resolve_ticker(company_identifier) ==
    LET ticker == Strip(Upper(company_identifier))
    IN  IF Contains(ticker, NS) \/ Contains(ticker, BO) \/ Contains(ticker, DOT)
        THEN <<ticker>>
        ELSE (IF ticker \in YahooFinanceFetcher_INDIAN_TICKERS
              THEN <<ticker \o NS, ticker \o BO>>
              ELSE <<>>) \o <<ticker>>

\* what the market-data provider holds for one symbol
YahooReplies == {"no info", "no statements", "statements"}

YahooRevenue == <<130, 100, 90>>

YahooNetIncome == <<12, 5, 4>>

\* columns[:years] of the provider's statements
_fetch_for_ticker(ticker_symbol, years, reply) ==
    IF reply = "no info" THEN None
    ELSE IF reply = "no statements"
    THEN FinancialData(Upper(ticker_symbol), years, "Yahoo Finance", <<>>, <<>>)
    ELSE FinancialData(Upper(ticker_symbol), years, "Yahoo Finance",
                       Prefix(YahooRevenue, years), Prefix(YahooNetIncome, years))

\* replies[i] is the provider's reply for the i-th candidate symbol
YahooFinanceFetcher_fetch_data(company_identifier, years, replies) ==
    LET ticker_candidates == _resolve_ticker(company_identifier)
        result == [i \in DOMAIN ticker_candidates |->
                      _fetch_for_ticker(ticker_candidates[i], years, replies[i])]
        hits == {i \in DOMAIN ticker_candidates : Usable(result[i])}
    IN  IF hits = {} THEN None
        ELSE result[CHOOSE i \in hits : \A j \in hits : i <= j]

\* BaseDataFetcher.fetch_data as its caller sees it: an implementation returns
\* None, returns a record, or lets an exception escape
ScreenerOutcomes(company_identifier, years) ==
    {Exception, None} \cup
    {FinancialData(Upper(company_identifier), years, "Screener.in", r, n) :
        r \in {<<>>, <<100, 90>>}, n \in {<<>>, <<9>>}}

FMPOutcomes(company_identifier, years) ==
    {Exception, None,
     FinancialData(Upper(company_identifier), years, "Financial Modeling Prep",
                   <<101>>, <<8>>)}

get_all_fetchers(yf, fmp_api_key) ==
    <<SCREENER>> \o (IF yf THEN <<YAHOO>> ELSE <<>>)
                 \o (IF fmp_api_key # "" THEN <<FMP>> ELSE <<>>)

_detect_market(company_identifier) ==
    LET ticker == Strip(Upper(company_identifier))
    IN  IF Contains(ticker, NS) \/ Contains(ticker, BO) THEN INDIA
        ELSE IF ticker \in MultiSourceFetcher_INDIAN_TICKERS THEN INDIA
        ELSE GLOBAL

\* a fetch_data that never reorders
TrialOrderAsStored(self_fetchers, preferred_market) == self_fetchers

\* the local list fetch_data iterates
TrialOrder(self_fetchers, preferred_market) ==
    LET IsYahoo(f) == f = YAHOO
        IsScreener(f) == f = SCREENER
        IsOther(f) == f \notin {YAHOO, SCREENER}
        order == self_fetchers
    IN  IF Lower(preferred_market) = INDIA
        THEN SelectSeq(order, IsYahoo) \o SelectSeq(order, IsScreener)
                 \o SelectSeq(order, IsOther)
        ELSE order

\* a fetch_data that reorders self.fetchers in place
StoredReordered(self_fetchers, order) == order

\* self.fetchers once fetch_data has returned: the reordering rebinds the local name only
StoredAfterFetch(self_fetchers, order) == self_fetchers

\* an adapter call outside any try block
Uncaught(outcome) == outcome

\* try: ... except Exception: continue
Caught(outcome) == IF outcome.kind = "raise" THEN None ELSE outcome

\* fetcher.fetch_data(company_identifier, years), given what the providers hold
AdapterFetch(fetcher, company_identifier, years, env) ==
    CASE fetcher = SCREENER -> env.screener
      [] fetcher = YAHOO -> YahooFinanceFetcher_fetch_data(company_identifier, years, env.yahoo)
      [] OTHER -> env.fmp

\* for fetcher in fetchers: the adapters called, in order, and what the loop ends with
RECURSIVE TryFetchers(_, _, _, _, _)
TryFetchers(order, company_identifier, years, env, i) ==
    IF i > Len(order) THEN [result |-> None, tried |-> order]
    ELSE LET data == Caught(AdapterFetch(order[i], company_identifier, years, env))
         IN  IF data.kind = "raise" \/ Usable(data)
             THEN [result |-> data, tried |-> SubSeq(order, 1, i)]
             ELSE TryFetchers(order, company_identifier, years, env, i + 1)

MultiSourceFetcher_fetch_data(self_fetchers, company_identifier, years, preferred_market, env) ==
    LET market == IF Lower(preferred_market) = AUTO
                  THEN _detect_market(company_identifier)
                  ELSE preferred_market
        order == TrialOrder(self_fetchers, market)
        loop == TryFetchers(order, company_identifier, years, env, 1)
    IN  [kind |-> "fetch_data",
         company_identifier |-> company_identifier,
         years |-> years,
         preferred_market |-> preferred_market,
         env |-> env,
         market |-> market,
         order |-> order,
         tried |-> loop.tried,
         ticker_candidates |-> IF \E k \in DOMAIN loop.tried : loop.tried[k] = YAHOO
                               THEN _resolve_ticker(company_identifier) ELSE <<>>,
         result |-> loop.result,
         self_fetchers |-> StoredAfterFetch(self_fetchers, order)]

\* a key that tells names and tickers apart by case
SearchKeyCaseSensitive(r) == <<r.name, r.ticker>>

\* key = (r['name'].lower(), r['ticker'].upper())
SearchKey(r) == <<Lower(r.name), Upper(r.ticker)>>

\* for r in results: append r unless its key was seen
RECURSIVE AddResults(_, _)
AddResults(all_results, results) ==
    IF results = <<>> THEN all_results
    ELSE LET r == Head(results)
             seen == {SearchKey(all_results[j]) : j \in DOMAIN all_results}
         IN  AddResults(IF SearchKey(r) \in seen THEN all_results
                        ELSE Append(all_results, r),
                        Tail(results))

\* fetcher.search_company(query), given what the providers return
AdapterSearch(fetcher, env) ==
    CASE fetcher = SCREENER -> env.screener
      [] fetcher = YAHOO -> env.yahoo
      [] OTHER -> env.fmp

\* a list an adapter's search_company returned
Results(items) == [kind |-> "results", items |-> items]

RECURSIVE SearchFetchers(_, _, _, _)
SearchFetchers(order, env, i, all_results) ==
    IF i > Len(order) THEN [result |-> all_results, raised |-> FALSE]
    ELSE LET results == AdapterSearch(order[i], env)
         IN  IF results.kind = "raise"
             THEN (IF Caught(results).kind = "raise"
                   THEN [result |-> all_results, raised |-> TRUE]
                   ELSE SearchFetchers(order, env, i + 1, all_results))
             ELSE SearchFetchers(order, env, i + 1, AddResults(all_results, results.items))

MultiSourceFetcher_search_company(self_fetchers, query, env) ==
    LET loop == SearchFetchers(self_fetchers, env, 1, <<>>)
    IN  [kind |-> "search_company",
         query |-> query,
         env |-> env,
         queried |-> self_fetchers,
         raised |-> loop.raised,
         result |-> loop.result,
         self_fetchers |-> self_fetchers]

---------------------------------------------------------------------------
(* Calls of MultiSourceFetcher *)

Bodies == {<<"T", "C", "S">>, <<"U", "P", "L">>, <<"A", "A", "P", "L">>}

Suffixes == {<<>>, NS, BO, <<".", "L">>}

Identifiers ==
    LET plain == {b \o x : b \in Bodies, x \in Suffixes}
    IN  plain \cup {Lower(p) : p \in plain}
              \cup {<<" ">> \o Lower(b) \o <<" ">> : b \in Bodies}

MarketHints == {AUTO, INDIA, GLOBAL, US}

FmpKeys == {"", "fmp-key"}

Match(name, ticker) == [name |-> name, ticker |-> ticker]

SearchReplies ==
    LET tata == Match(<<"T", "a", "t", "a">>, <<"T", "C", "S", ".", "N", "S">>)
        tataCaps == Match(<<"T", "A", "T", "A">>, <<"t", "c", "s", ".", "n", "s">>)
        upl == Match(<<"U", "p", "l", " ", "L", "t", "d">>, <<"U", "P", "L">>)
    IN  {Results(<<>>), Results(<<tata>>), Results(<<tataCaps, upl>>), Results(<<upl, tata>>)}

Queries == {<<"T", "C", "S">>, <<"u", "p", "l">>}

\* some fetch_data call made so far iterated a list ordered differently from self.fetchers
Reordered(c) == c.order # fetchers

InitFetch ==
    /\ \E yf \in BOOLEAN : \E fmp_api_key \in FmpKeys :
           fetchers = get_all_fetchers(yf, fmp_api_key)
    /\ call = Idle
    /\ reordered = FALSE
    /\ rec = EmptyRecord(1) /\ report = NoReport
    /\ vin = Idle /\ vout = Idle

Has(fetcher) == \E k \in DOMAIN fetchers : fetchers[k] = fetcher

FetchData ==
    /\ call = Idle
    /\ \E company_identifier \in Identifiers : \E years \in YearsRequested :
         \E preferred_market \in MarketHints :
           \E s \in ScreenerOutcomes(company_identifier, years) :
             \E y \in (IF Has(YAHOO)
                       THEN [DOMAIN _resolve_ticker(company_identifier) -> YahooReplies]
                       ELSE {<<>>}) :
               \E m \in (IF Has(FMP) THEN FMPOutcomes(company_identifier, years) ELSE {None}) :
                 LET c == MultiSourceFetcher_fetch_data(fetchers, company_identifier, years,
                              preferred_market, [screener |-> s, yahoo |-> y, fmp |-> m])
                 IN  /\ call' = c
                     /\ fetchers' = c.self_fetchers
                     /\ reordered' = (reordered \/ Reordered(c))
    /\ UNCHANGED <<rec, report, vin, vout>>

SearchCompany ==
    /\ call = Idle
    /\ \E query \in Queries :
         \E s \in SearchReplies \cup {Exception} :
           \E y \in (IF Has(YAHOO) THEN SearchReplies \cup {Exception} ELSE {Results(<<>>)}) :
             \E m \in (IF Has(FMP) THEN SearchReplies ELSE {Results(<<>>)}) :
               LET c == MultiSourceFetcher_search_company(fetchers, query,
                            [screener |-> s, yahoo |-> y, fmp |-> m])
               IN  /\ call' = c
                   /\ fetchers' = c.self_fetchers
    /\ UNCHANGED <<reordered, rec, report, vin, vout>>

\* the caller takes the returned value; the orchestrator is ready for its next call
Return ==
    /\ call # Idle
    /\ call' = Idle
    /\ UNCHANGED <<fetchers, reordered, rec, report, vin, vout>>

NextFetch == FetchData \/ SearchCompany \/ Return

SpecFetch == InitFetch /\ [][NextFetch]_vars

(* Claims about MultiSourceFetcher and the ticker resolver *)

Fetched == call.kind = "fetch_data"

\* what the i-th adapter of the call's trial order returns when called
Answer(i) == AdapterFetch(call.order[i], call.company_identifier, call.years, call.env)

HasFigures(data) ==
    /\ data.kind = "record"
    /\ (Len(data.revenue) > 0 \/ Len(data.net_income) > 0)

\* C3: when the first adapter of the trial order returns absent and the second
\* returns a record whose revenue series is non-empty, fetch_data returns exactly
\* the second adapter's record, with nothing of any other adapter in it, and
\* calls no third adapter.
C3_FallbackReturnsSecond ==
    (/\ Fetched
     /\ Len(call.order) >= 2
     /\ Answer(1) = None
     /\ Answer(2).kind = "record"
     /\ Answer(2).revenue # <<>>)
    => (call.result = Answer(2) /\ call.tried = SubSeq(call.order, 1, 2))

\* C3 witness: the market-data adapter, tried first, returns absent; the scrape
\* adapter returns revenue only and its record is the result although the third
\* adapter holds a usable record too.
C3_Witness ==
    /\ Fetched
    /\ call.order = <<YAHOO, SCREENER, FMP>>
    /\ Answer(1) = None
    /\ Answer(2).kind = "record"
    /\ Answer(2).revenue # <<>> /\ Answer(2).net_income = <<>>
    /\ HasFigures(Answer(3))
    /\ call.result = Answer(2)
    /\ call.result.data_source = "Screener.in"

\* C4: fetch_data never raises. Adapters that throw, return absent or return a
\* record with revenue and net_income both empty are skipped in trial order; the
\* result is the first usable record, or absent when no adapter yields one.
C4_NeverRaises ==
    Fetched =>
        LET good == {i \in DOMAIN call.order : HasFigures(Answer(i))}
            first == CHOOSE i \in good : \A j \in good : i <= j
        IN  /\ call.result.kind # "raise"
            /\ IF good = {}
               THEN call.result = None /\ call.tried = call.order
               ELSE call.result = Answer(first) /\ call.tried = SubSeq(call.order, 1, first)

\* C4 witness: three adapters, one throwing, one returning a record without
\* revenue and net income, one returning absent: all are tried, the result is absent.
C4_Witness ==
    /\ Fetched
    /\ Len(call.order) = 3
    /\ \E i, j, k \in 1..3 :
          /\ Answer(i).kind = "raise"
          /\ Answer(j).kind = "record" /\ ~HasFigures(Answer(j))
          /\ Answer(k) = None
    /\ call.tried = call.order
    /\ call.result = None

\* the adapters the orchestrator was constructed with
Constructed == {fetchers[k] : k \in DOMAIN fetchers}

Only(adapter) == IF adapter \in Constructed THEN <<adapter>> ELSE <<>>

NaturalOrder == Only(SCREENER) \o Only(YAHOO) \o Only(FMP)

RegionalOrder == Only(YAHOO) \o Only(SCREENER) \o Only(FMP)

\* C5: when the market (given, or inferred under hint 'auto') is 'india',
\* fetch_data tries the Yahoo adapter first, then the Screener adapter, then the
\* rest; for any other market it tries the adapters in construction order
\* (Screener, Yahoo, FMP).
C5_TrialOrder ==
    Fetched =>
        /\ call.order = (IF call.market = INDIA THEN RegionalOrder ELSE NaturalOrder)
        /\ \E n \in 1..Len(call.order) : call.tried = SubSeq(call.order, 1, n)
        /\ (call.preferred_market # AUTO => call.market = call.preferred_market)
        /\ (call.preferred_market = AUTO => call.market \in {INDIA, GLOBAL})

\* C5 witness: hint 'auto', an identifier with an exchange suffix; all three
\* adapters are tried, Yahoo first.
C5_Witness ==
    /\ Fetched
    /\ call.preferred_market = AUTO
    /\ call.market = INDIA
    /\ call.tried = <<YAHOO, SCREENER, FMP>>

\* C6: fetch_data never changes the stored adapter list, so whatever calls came
\* before, a fetch_data call for a market other than 'india' iterates the
\* construction order and search_company queries the adapters in construction order.
C6_StoredListUnchanged ==
    /\ [][fetchers' = fetchers]_vars
    /\ [](fetchers = NaturalOrder)
    /\ [](Fetched /\ call.market # INDIA => call.order = NaturalOrder)
    /\ [](call.kind = "search_company" => call.queried = NaturalOrder)

\* C6 witness: after a regional call that tried Yahoo first, search_company
\* queries Screener, Yahoo, FMP.
C6_Witness ==
    /\ reordered
    /\ call.kind = "search_company"
    /\ call.queried = <<SCREENER, YAHOO, FMP>>

KnownRegionalBare(company_identifier) ==
    LET T == Strip(Upper(company_identifier))
    IN  /\ T \in YahooFinanceFetcher_INDIAN_TICKERS
        /\ \A i \in DOMAIN T : T[i] # "."

\* C7: for a known regional ticker given without a suffix, in any case and with
\* surrounding whitespace, the resolver returns exactly T.NS, T.BO, T in this
\* order, T being the trimmed upper-cased ticker; the Yahoo adapter returns the
\* record of the first of them the provider holds statements for.
C7_ResolveOrder ==
    (/\ Fetched
     /\ \E k \in DOMAIN call.tried : call.tried[k] = YAHOO
     /\ KnownRegionalBare(call.company_identifier))
    => LET T == Strip(Upper(call.company_identifier))
           cands == <<T \o NS, T \o BO, T>>
           held == {i \in 1..3 : call.env.yahoo[i] = "statements"}
       IN  /\ call.ticker_candidates = cands
           /\ (call.result.kind = "record" /\ call.result.data_source = "Yahoo Finance")
                  => /\ held # {}
                     /\ call.result.ticker = cands[CHOOSE i \in held : \A j \in held : i <= j]

\* C7 witness: " tcs " resolves to TCS.NS, TCS.BO, TCS; the provider has nothing
\* for TCS.NS and the record returned is that of TCS.BO.
C7_Witness ==
    /\ Fetched
    /\ call.company_identifier = <<" ", "t", "c", "s", " ">>
    /\ call.ticker_candidates =
           <<<<"T", "C", "S", ".", "N", "S">>, <<"T", "C", "S", ".", "B", "O">>, <<"T", "C", "S">>>>
    /\ call.env.yahoo[1] = "no info"
    /\ call.result.kind = "record"
    /\ call.result.ticker = <<"T", "C", "S", ".", "B", "O">>

---------------------------------------------------------------------------
(* data_fetcher.py: search_company of the adapters and validate_company_name *)

\* what a provider's info gives for the fields longName, shortName, name,
\* quoteType that are present and non-empty, in this order; <<>> when the
\* provider has no usable info for the symbol
QuoteTypes == {<<"E", "Q", "U", "I", "T", "Y">>, <<"M", "U", "T", "U", "A", "L", "F", "U", "N", "D">>, <<"E", "T", "F">>}

\* the first name field whose value is not the ticker itself
RECURSIVE FirstProperName(_, _, _)
FirstProperName(info, base_ticker, ticker) ==
    IF info = <<>> THEN <<>>
    ELSE LET potential_name == Head(info)
         IN  IF /\ Upper(potential_name) # base_ticker
                /\ Upper(potential_name) # ticker
                /\ Upper(potential_name) \notin QuoteTypes
             THEN potential_name
             ELSE FirstProperName(Tail(info), base_ticker, ticker)

\* the loop over the candidate symbols: the first that yields a proper name
RECURSIVE SearchCandidates(_, _, _, _)
SearchCandidates(candidates, i, ticker, info) ==
    IF i > Len(candidates) THEN <<>>
    ELSE LET ticker_symbol == candidates[i]
             base_ticker == Remove(Remove(Remove(ticker_symbol, NS), BO), DOT)
             company_name == FirstProperName(info, base_ticker, ticker)
         IN  IF /\ company_name # <<>>
                /\ Upper(company_name) \notin {ticker, ticker_symbol, base_ticker}
             THEN <<Match(company_name, ticker_symbol)>>
             ELSE SearchCandidates(candidates, i + 1, ticker, info)

YahooFinanceFetcher_search_company(query, info) ==
    LET ticker == Strip(Upper(query))
    IN  SearchCandidates(_resolve_ticker(ticker), 1, ticker, info)

\* the provider's list, as {name, ticker} pairs; [] when the request fails
FMPFetcher_search_company(query, reply) == reply

NoMatch == [name |-> <<>>, ticker |-> <<>>]

\* a result whose error stays None whatever happened
ResultWithoutError(valid, matches, best_match, error, via) ==
    [valid |-> valid, matches |-> matches, best_match |-> best_match,
     error |-> <<>>, via |-> via]

Result(valid, matches, best_match, error, via) ==
    [valid |-> valid, matches |-> matches, best_match |-> best_match,
     error |-> error, via |-> via]

\* query.replace('.NS', '').replace('.BO', '')
Base(query) == Remove(Remove(query, NS), BO)

\* a ticker-shaped query without suffix gets .NS appended
AutoSuffix(query, is_likely_ticker, clean_query) ==
    IF /\ is_likely_ticker
       /\ ~Contains(query, NS) /\ ~Contains(query, BO)
       /\ Len(clean_query) <= 12
    THEN query \o NS
    ELSE query

\* a query with .BO is no longer accepted on sight
SuffixAcceptedNsOnly(query) == Contains(query, NS)

\* if '.NS' in query or '.BO' in query
SuffixAccepted(query) == Contains(query, NS) \/ Contains(query, BO)

QueryVariants(query, is_likely_ticker) ==
    LET base_query == Base(query)
    IN  IF /\ is_likely_ticker
           /\ ~Contains(query, NS) /\ ~Contains(query, BO)
           /\ (base_query \in DOMAIN INDIAN_STOCK_NAMES \/ Len(base_query) <= 12)
        THEN <<query, base_query \o NS>>
        ELSE <<query>>

\* matches and any(m.get('name', '').upper() not in [query, query_variant, base] ...)
NotJustEcho(matches, query, query_variant) ==
    /\ matches # <<>>
    /\ \E k \in DOMAIN matches :
           Upper(matches[k].name) \notin {query, query_variant, Base(query)}

\* the profile's companyName is a name of its own
ProfileNamed(company_name, query, query_variant) ==
    /\ company_name # <<>>
    /\ Upper(company_name) \notin {query, Base(query_variant)}

\* the steps after the table: the two searches, the profile lookup, the messages
Lookups(query, is_likely_ticker, fmp_api_key, yf, env) ==
    LET query_variants == QueryVariants(query, is_likely_ticker)
        fmp(v) == FMPFetcher_search_company(v, env.fmp_search)
        yahoo(v) == YahooFinanceFetcher_search_company(v, env.yahoo_info)
        byFmp == {k \in DOMAIN query_variants :
                     fmp_api_key # "" /\ NotJustEcho(fmp(query_variants[k]), query, query_variants[k])}
        byYahoo == {k \in DOMAIN query_variants :
                     yf /\ NotJustEcho(yahoo(query_variants[k]), query, query_variants[k])}
        byProfile == {k \in DOMAIN query_variants :
                     /\ is_likely_ticker /\ fmp_api_key # ""
                     /\ ProfileNamed(env.profile, query, query_variants[k])}
        first(S) == CHOOSE k \in S : \A j \in S : k <= j
    IN  IF byFmp # {}
        THEN LET matches == fmp(query_variants[first(byFmp)])
             IN  Result(TRUE, matches, matches[1], <<>>, "fmp search")
        ELSE IF byYahoo # {}
        THEN LET matches == yahoo(query_variants[first(byYahoo)])
             IN  Result(TRUE, matches, matches[1], <<>>, "yahoo search")
        ELSE IF byProfile # {}
        THEN LET query_variant == query_variants[first(byProfile)]
                 m == Match(env.profile,
                            IF Contains(query_variant, DOT) THEN query_variant
                            ELSE Upper(query))
             IN  Result(TRUE, <<m>>, m, <<>>, "profile")
        ELSE IF is_likely_ticker
        THEN Result(FALSE, <<>>, NoMatch,
                    <<"Ticker not found. For Indian stocks, try adding .NS suffix", query>>,
                    "none")
        ELSE Result(FALSE, <<>>, NoMatch,
                    <<"No matching companies found. Please check the spelling or try entering a ticker symbol with .NS suffix.", query>>,
                    "none")

validate_company_name(company_name, fmp_api_key, yf, env) ==
    IF Strip(company_name) = <<>>
    THEN Result(FALSE, <<>>, NoMatch, <<"Company name or ticker cannot be empty", <<>>>>, "none")
    ELSE
    LET stripped == Strip(company_name)
        capitalised == IF /\ Len(stripped) <= 15
                          /\ IsAlnum(Remove(Remove(stripped, DOT), DASH))
                       THEN Upper(stripped) ELSE stripped
        clean_query == Remove(Remove(capitalised, DOT), DASH)
        is_likely_ticker == /\ Len(capitalised) <= 15
                            /\ IsAlnum(clean_query)
                            /\ IsUpper(clean_query)
        query == AutoSuffix(capitalised, is_likely_ticker, clean_query)
        accepted == SuffixAccepted(query)
        base_query == Base(query)
    IN  IF (is_likely_ticker \/ accepted) /\ base_query \in DOMAIN INDIAN_STOCK_NAMES
        THEN LET m == Match(INDIAN_STOCK_NAMES[base_query],
                            IF ~Contains(query, NS) /\ ~Contains(query, BO)
                            THEN base_query \o NS ELSE query)
             IN  Result(TRUE, <<m>>, m, <<>>, "table")
        ELSE IF accepted
        THEN Result(TRUE, <<Match(query, query)>>, Match(query, query), <<>>, "suffix")
        ELSE Lookups(query, is_likely_ticker, fmp_api_key, yf, env)

---------------------------------------------------------------------------
(* Calls of validate_company_name *)

CompanyNames ==
    {<<>>,
     <<" ", " ">>,
     <<"X", "Y", "Z", "Q">>,
     <<"t", "c", "s">>,
     <<" ", " ", "t", "c", "s", " ">>,
     <<"a", "l", "k", "e", "m", ".", "n", "s">>,
     <<"R", "A", "N", "D", "O", "M", ".", "B", "O">>,
     <<"F", "o", "o", " ", "B", "a", "r", ".", "N", "S">>,
     <<"f", "o", "o", " ", "b", "a", "r", ".", "n", "s">>,
     <<"a", "c", "m", "e", " ", "c", "o", "r", "p">>,
     <<"A", "C", "M", "E", " ", "C", "O", "R", "P">>,
     <<"A", "B", "C", "D", "E", "F", "G", "H", "I", "J", "K", "L", "M">>,
     <<"A", "B", "C", "D", "E", "F", "G", "-", "H", "I", "J", "K", "L", "M", "N">>,
     <<"I", "n", "v", "a", "l", "i", "d", "C", "o", "m", "p", "a", "n", "y", "1", "2">>,
     <<"1", "2", "3">>,
     <<"M", "&", "M">>}

ACME == Match(<<"A", "c", "m", "e", " ", "I", "n", "c">>, <<"A", "C", "M", "E">>)

FmpSearchReplies ==
    {<<>>,
     <<Match(<<"a", "c", "m", "e", " ", "c", "o", "r", "p">>, <<"A", "C", "M", "E">>)>>,
     <<Match(<<"A", "C", "M", "E", " ", "C", "O", "R", "P">>, <<"A", "C", "M", "E">>)>>,
     <<Match(<<"A", "C", "M", "E", " ", "C", "O", "R", "P">>, <<"A", "C", "M", "E">>), ACME>>,
     <<ACME>>,
     <<Match(<<"A", "b", "c", "d", "e", "f", "g", "h", "i", "j", "k", "l", "m">>, <<"A", "B", "C", "D", "E", "F", "G", "H", "I", "J", "K", "L", "M">>)>>,
     <<Match(<<"A", "B", "C", "D", "E", "F", "G", "-", "H", "I", "J", "K", "L", "M", "N">>, <<"A", "B", "C", "D", "E", "F", "G", "-", "H", "I", "J", "K", "L", "M", "N">>), Match(<<"O", "n", "e", "t", "w", "o", "t", "h", "r", "e", "e">>, <<"1", "2", "3">>)>>}

YahooInfos ==
    {<<>>,
     <<<<"a", "c", "m", "e", " ", "c", "o", "r", "p">>>>,
     <<<<"A", "c", "m", "e", " ", "C", "o", "r", "p">>, <<"A", "c", "m", "e", " ", "I", "n", "c">>>>,
     <<<<"A", "c", "m", "e", " ", "I", "n", "c">>>>,
     <<<<"E", "Q", "U", "I", "T", "Y">>>>,
     <<<<"A", "b", "c", "d", "e", "f", "g", "h", "i", "j", "k", "l", "m">>, <<"E", "Q", "U", "I", "T", "Y">>>>}

Profiles == {<<>>, <<"A", "b", "c", "d", "e", "f", "g", "h", "i", "j", "k", "l", "m">>, <<"A", "c", "m", "e", " ", "I", "n", "c">>}

InitValidate ==
    /\ vin = Idle /\ vout = Idle
    /\ rec = EmptyRecord(1) /\ report = NoReport
    /\ fetchers = <<>> /\ call = Idle /\ reordered = FALSE

Validate ==
    /\ vin = Idle
    /\ \E company_name \in CompanyNames : \E fmp_api_key \in FmpKeys : \E yf \in BOOLEAN :
         \E fmp_search \in FmpSearchReplies : \E yahoo_info \in YahooInfos :
           \E profile \in Profiles :
             LET env == [fmp_search |-> fmp_search, yahoo_info |-> yahoo_info,
                         profile |-> profile]
             IN  /\ vin' = [company_name |-> company_name, fmp_api_key |-> fmp_api_key,
                            yf |-> yf, env |-> env]
                 /\ vout' = validate_company_name(company_name, fmp_api_key, yf, env)
    /\ UNCHANGED <<rec, report, fetchers, call, reordered>>

\* the caller takes the result
ValidateReturn ==
    /\ vin # Idle
    /\ vin' = Idle /\ vout' = Idle
    /\ UNCHANGED <<rec, report, fetchers, call, reordered>>

NextValidate == Validate \/ ValidateReturn

SpecValidate == InitValidate /\ [][NextValidate]_vars

(* Claims about validate_company_name *)

Validated == vin # Idle

\* the input as typed, trimmed
Typed == Strip(vin.company_name)

\* the typed input, upper-cased when it is at most 15 characters of letters,
\* digits, dots and dashes
Capitalised ==
    IF Len(Typed) <= 15 /\ IsAlnum(Remove(Remove(Typed, DOT), DASH))
    THEN Upper(Typed) ELSE Typed

IsEcho(m) == Upper(m.name) = Upper(Typed)

\* C8: a search step whose matches all carry a name equal to the query,
\* ignoring case, does not make the result valid, whether the query is
\* ticker-shaped or free text.
C8_EchoRejected ==
    (Validated /\ vout.via \in {"fmp search", "yahoo search"})
    => \E k \in DOMAIN vout.matches : ~IsEcho(vout.matches[k])

TickerShaped ==
    /\ Len(Typed) <= 15
    /\ IsAlnum(Remove(Remove(Typed, DOT), DASH))
    /\ \E i \in DOMAIN Typed : IsLower(Typed[i]) \/ IsUpperChar(Typed[i])

\* neither search returns anything, there is no profile, the table has no entry
AllLookupsFail ==
    /\ vin.env.fmp_search = <<>>
    /\ vin.env.yahoo_info = <<>>
    /\ vin.env.profile = <<>>
    /\ Base(Upper(Typed)) \notin DOMAIN INDIAN_STOCK_NAMES

\* C9: when both searches, the profile lookup and the name table fail to
\* identify a non-empty input typed without exchange suffix, the result is
\* invalid and carries an error message: for a ticker-shaped input the one
\* suggesting an exchange suffix, for a name the one suggesting to check the
\* spelling or to enter a ticker.
C9_FailureMessage ==
    (/\ Validated
     /\ Typed # <<>>
     /\ ~Contains(Upper(Typed), NS) /\ ~Contains(Upper(Typed), BO)
     /\ AllLookupsFail)
    => /\ ~vout.valid
       /\ vout.error # <<>>
       /\ vout.error[1] =
              (IF TickerShaped
               THEN "Ticker not found. For Indian stocks, try adding .NS suffix"
               ELSE "No matching companies found. Please check the spelling or try entering a ticker symbol with .NS suffix.")

\* C10: an input that, trimmed and auto-capitalised, carries .NS or .BO is
\* accepted: valid, no error, best_match's ticker the suffixed symbol, also when
\* its base symbol is not in the name table and no search finds anything.
C10_SuffixAccepted ==
    (/\ Validated
     /\ Typed # <<>>
     /\ (Contains(Capitalised, NS) \/ Contains(Capitalised, BO)))
    => /\ vout.valid
       /\ vout.error = <<>>
       /\ vout.best_match.ticker = Capitalised
       /\ vout.matches = <<vout.best_match>>

\* C10 witness: RANDOM.BO, unknown to the table and to every provider, is
\* accepted under its own symbol.
C10_Witness ==
    /\ Validated
    /\ vin.company_name = <<"R", "A", "N", "D", "O", "M", ".", "B", "O">>
    /\ AllLookupsFail
    /\ vout.valid
    /\ vout.via = "suffix"
    /\ vout.best_match = Match(<<"R", "A", "N", "D", "O", "M", ".", "B", "O">>, <<"R", "A", "N", "D", "O", "M", ".", "B", "O">>)

---------------------------------------------------------------------------
(* Specification of the analyzer on longer series: an adapter fills up to      *)
(* MaxYears values into the series of one group of related fields              *)

MaxYears == 5

\* the series that are filled together
SeriesGroups ==
    {{"operating_margin", "net_margin", "roe"},
     {"revenue"},
     {"net_income", "operating_cash_flow"},
     {"debt_to_equity"}}

\* sample values around the thresholds of the rules that read these series
SeriesValues ==
    [f \in UNION SeriesGroups |->
        CASE f = "operating_margin" -> {3, 18, 22}
          [] f = "net_margin" -> {-2, 16}
          [] f = "roe" -> {8, 25}
          [] f = "revenue" -> {80, 100, 130}
          [] f = "net_income" -> {-4, 5, 12}
          [] f = "operating_cash_flow" -> {-3, 2, 6}
          [] f = "debt_to_equity" -> {2000, 2004, 3000, 3004, 3500}]

PopulatedFields(data) == {f \in SeriesFields : data[f] # <<>>}

InitSeries ==
    /\ \E y \in YearsRequested : rec = EmptyRecord(y)
    /\ report = NoReport
    /\ fetchers = <<>> /\ call = Idle /\ reordered = FALSE
    /\ vin = Idle /\ vout = Idle

\* fin_data.<field>[year_label] = value, for the fields of one group
PopulateSeries ==
    /\ Cells(rec) < MaxYears
    /\ \E g \in SeriesGroups :
          /\ PopulatedFields(rec) \subseteq g
          /\ \E f \in g : \E v \in SeriesValues[f] :
                 rec' = [rec EXCEPT ![f] = Append(@, v)]
    /\ report' = NoReport
    /\ UNCHANGED <<fetchers, call, reordered, vin, vout>>

NextSeries == PopulateSeries \/ Analyze

SpecSeries == InitSeries /\ [][NextSeries]_vars

---------------------------------------------------------------------------
(* Specification of the analyzer on single-year records: an adapter stores one *)
(* value in each series its source has, across all statements                  *)

WideFields ==
    {"operating_margin", "net_margin", "roe", "revenue", "debt_to_equity",
     "interest_coverage", "current_ratio", "operating_cash_flow", "free_cash_flow",
     "roce", "roa"}

WideValues ==
    [f \in WideFields |->
        CASE f = "operating_margin" -> {18, 22}
          [] f = "net_margin" -> {16}
          [] f = "roe" -> {25}
          [] f = "revenue" -> {100}
          [] f = "debt_to_equity" -> {200}
          [] f = "interest_coverage" -> {12}
          [] f = "current_ratio" -> {2500}
          [] f = "operating_cash_flow" -> {20}
          [] f = "free_cash_flow" -> {4}
          [] f = "roce" -> {22}
          [] f = "roa" -> {12}]

InitWide ==
    /\ \E y \in YearsRequested : rec = EmptyRecord(y)
    /\ report = NoReport
    /\ fetchers = <<>> /\ call = Idle /\ reordered = FALSE
    /\ vin = Idle /\ vout = Idle

\* fin_data.<field>[year_label] = value, for the one year of the statements
PopulateWide ==
    /\ \E f \in WideFields :
          /\ rec[f] = <<>>
          /\ \E v \in WideValues[f] : rec' = [rec EXCEPT ![f] = <<v>>]
    /\ report' = NoReport
    /\ UNCHANGED <<fetchers, call, reordered, vin, vout>>

\* fin_data.dividend_yield = value
PopulateWideDividend ==
    /\ rec.dividend_yield = 0
    /\ \E dy \in DividendYields : rec' = [rec EXCEPT !.dividend_yield = dy]
    /\ report' = NoReport
    /\ UNCHANGED <<fetchers, call, reordered, vin, vout>>

NextWide == PopulateWide \/ PopulateWideDividend \/ Analyze

SpecWide == InitWide /\ [][NextWide]_vars

---------------------------------------------------------------------------
(* Specification of repeated analysis: one QualityAnalyzer is handed a record, *)
(* later other records, and later the first record again                       *)

MaxRepeatCells == 3

InitRepeat ==
    /\ \E y \in YearsRequested : rec = EmptyRecord(y)
    /\ report = NoReport
    /\ fetchers = <<>> /\ call = Idle /\ reordered = FALSE
    /\ vin = Idle /\ vout = Idle

\* fin_data.<field>[year_label] = value: the adapter goes on to another record
PopulateRepeat ==
    /\ Cells(rec) < MaxRepeatCells
    /\ \E g \in SeriesGroups :
          /\ PopulatedFields(rec) \subseteq g
          /\ \E f \in g : \E v \in SeriesValues[f] :
                 rec' = [rec EXCEPT ![f] = Append(@, v)]
    /\ report' = NoReport
    /\ UNCHANGED <<fetchers, call, reordered, vin, vout>>

\* analyzer.analyze(fin_data), the caller keeping fin_data and the report
AnalyzeKept ==
    /\ call = Idle
    /\ report = NoReport
    /\ \E half_up \in BOOLEAN :
          /\ report' = analyze(rec, half_up)
          /\ call' = [kind |-> "analyze", fin_data |-> rec,
                      report |-> analyze(rec, half_up)]
    /\ UNCHANGED <<rec, fetchers, reordered, vin, vout>>

\* the second call on a QualityAnalyzer whose result lists outlive a call
AnalyzeAgainSharedLists ==
    /\ call.kind = "analyze"
    /\ \E half_up \in BOOLEAN :
          LET again == analyze(call.fin_data, half_up)
              grown == [again EXCEPT !.red_flags = call.report.red_flags \o @]
          IN  /\ report' = grown
              /\ call' = [kind |-> "analyze again", fin_data |-> call.fin_data,
                          report |-> call.report, again |-> grown,
                          fin_data_after |-> call.fin_data]
    /\ rec' = call.fin_data
    /\ UNCHANGED <<fetchers, reordered, vin, vout>>

\* analyzer.analyze(fin_data) once more, on the record kept from AnalyzeKept:
\* QualityAnalyzer has no attributes (__init__ is pass), every scorer builds
\* its own lists and reads the series through list(series.values())
AnalyzeAgain ==
    /\ call.kind = "analyze"
    /\ \E half_up \in BOOLEAN :
          LET again == analyze(call.fin_data, half_up)
          IN  /\ report' = again
              /\ call' = [kind |-> "analyze again", fin_data |-> call.fin_data,
                          report |-> call.report, again |-> again,
                          fin_data_after |-> call.fin_data]
    /\ rec' = call.fin_data
    /\ UNCHANGED <<fetchers, reordered, vin, vout>>

NextRepeat == PopulateRepeat \/ AnalyzeKept \/ Analyze \/ AnalyzeAgain

SpecRepeat == InitRepeat /\ [][NextRepeat]_vars

---------------------------------------------------------------------------
(* Specification of the analyzer on operating margins: the record holds an     *)
(* operating_margin series only, with values on and around the thresholds      *)

MaxMarginYears == 3

MarginValues == {-4, 2, 5, 8, 10, 12, 15, 18, 20, 22}

InitMargins ==
    /\ \E y \in YearsRequested : rec = EmptyRecord(y)
    /\ report = NoReport
    /\ fetchers = <<>> /\ call = Idle /\ reordered = FALSE
    /\ vin = Idle /\ vout = Idle

\* fin_data.operating_margin[year_label] = value
PopulateMargins ==
    /\ Len(rec.operating_margin) < MaxMarginYears
    /\ \E v \in MarginValues :
           rec' = [rec EXCEPT !.operating_margin = Append(@, v)]
    /\ report' = NoReport
    /\ UNCHANGED <<fetchers, call, reordered, vin, vout>>

NextMargins == PopulateMargins \/ Analyze

SpecMargins == InitMargins /\ [][NextMargins]_vars

---------------------------------------------------------------------------
(* ScreenerInFetcher: the company page and its tables                          *)

\* s[-n:]: the last n elements; s[-0:] is all of s
LastN(s, n) ==
    IF n = 0 \/ n >= Len(s) THEN s
    ELSE [i \in 1..n |-> s[Len(s) - n + i]]

\* data[year] = float(val) for the labels and cells paired by position; a cell
\* is <<v>> for a number and <<>> for '' or '-'.  The labels of one header are
\* distinct, so the dict keeps one entry per label, in insertion order.
RECURSIVE PairCells(_, _, _)
PairCells(year_labels, values, i) ==
    IF i > Len(year_labels) THEN <<>>
    ELSE (IF i <= Len(values) /\ values[i] # <<>>
          THEN <<[year |-> year_labels[i], value |-> values[i][1]]>>
          ELSE <<>>) \o PairCells(year_labels, values, i + 1)

\* the table of a section: the header's year cells and the cells of the row
\* whose label holds the metric name, in the order of the page
Table(header, row) == [kind |-> "table", header |-> header, row |-> row]

_extract_table_data(table, years) ==
    IF table.kind # "table" THEN <<>>
    ELSE PairCells(LastN(table.header, years), LastN(table.row, years), 1)

\* list(series.values())
Values(data) == [i \in DOMAIN data |-> data[i].value]

\* session.get(url, timeout=15): a response with a status code (and the page's
\* profit-loss table with its sales row), or an exception of requests
Response(status_code, table) ==
    [kind |-> "response", status_code |-> status_code, table |-> table]

\* ScreenerInFetcher.fetch_data: the whole body is one try block, so an
\* exception of the first request goes straight to 'return None'
ScreenerInFetcher_fetch_data(company_identifier, years, env) ==
    LET first == env.consolidated
        second == env.standalone
        requested == IF first.kind = "response" /\ first.status_code = 200
                     THEN <<"consolidated">>
                     ELSE IF first.kind = "raise" THEN <<"consolidated">>
                     ELSE <<"consolidated", "standalone">>
        response == IF Len(requested) = 1 THEN first ELSE second
    IN  [kind |-> "ScreenerInFetcher.fetch_data", env |-> env,
         requested |-> requested,
         result |-> IF response.kind = "raise" THEN None
                    ELSE IF response.status_code # 200 THEN None
                    ELSE FinancialData(Upper(company_identifier), years, "Screener.in",
                                       Values(_extract_table_data(response.table, years)),
                                       <<>>)]

---------------------------------------------------------------------------
(* Specification of the scrape adapter: pages with tables of up to MaxColumns  *)
(* year columns, listed oldest first or newest first                           *)

MaxColumns == 3

YearLabels == 2021..2024

Headers ==
    {[i \in 1..n |-> a + i - 1] : a \in YearLabels, n \in 1..MaxColumns}
        \cup {[i \in 1..n |-> a - i + 1] : a \in YearLabels, n \in 1..MaxColumns}

TableCells == {<<>>, <<100>>, <<130>>}

Tables ==
    {Table(h, r) : h \in {x \in Headers : \A i \in DOMAIN x : x[i] \in YearLabels},
                   r \in UNION {[1..m -> TableCells] : m \in 0..MaxColumns}}

\* the tables whose row has a cell for every year column, or lacks the last one
PageTables == {t \in Tables : Len(t.row) \in {Len(t.header), Len(t.header) - 1}}

ColumnsRequested == {1, 2, 3}

PageReplies ==
    {Exception, Response(404, None), Response(200, None),
     Response(200, Table(<<2022, 2023, 2024>>, <<<<100>>, <<130>>, <<130>>>>)),
     Response(200, Table(<<2024, 2023>>, <<<<130>>, <<100>>>>))}

InitScreener ==
    /\ rec = EmptyRecord(1) /\ report = NoReport
    /\ fetchers = <<>> /\ call = Idle /\ reordered = FALSE
    /\ vin = Idle /\ vout = Idle

\* fin_data.revenue = self._extract_table_data(soup, 'profit-loss', 'sales', years)
ExtractTableData ==
    /\ call = Idle
    /\ \E table \in PageTables : \E years \in ColumnsRequested :
           call' = [kind |-> "_extract_table_data", table |-> table, years |-> years,
                    data |-> _extract_table_data(table, years)]
    /\ UNCHANGED <<rec, report, fetchers, reordered, vin, vout>>

\* ScreenerInFetcher().fetch_data(company_identifier, years)
ScreenerFetchData ==
    /\ call = Idle
    /\ \E years \in ColumnsRequested :
       \E consolidated \in PageReplies : \E standalone \in PageReplies :
           call' = ScreenerInFetcher_fetch_data(
                       <<"t", "c", "s">>, years,
                       [consolidated |-> consolidated, standalone |-> standalone])
    /\ UNCHANGED <<rec, report, fetchers, reordered, vin, vout>>

NextScreener == ExtractTableData \/ ScreenerFetchData \/ Return

SpecScreener == InitScreener /\ [][NextScreener]_vars

(* Claims about MultiSourceFetcher.search_company *)

Searched == call.kind = "search_company"

\* what the i-th adapter queried returned
SearchAnswer(i) == AdapterSearch(call.queried[i], call.env)

\* every item the adapters that did not throw returned, in query order
RECURSIVE ItemsFrom(_)
ItemsFrom(i) ==
    IF i > Len(call.queried) THEN <<>>
    ELSE (IF SearchAnswer(i).kind = "raise" THEN <<>> ELSE SearchAnswer(i).items)
         \o ItemsFrom(i + 1)

SamePair(a, b) == Lower(a.name) = Lower(b.name) /\ Upper(a.ticker) = Upper(b.ticker)

\* the items whose pair no earlier item carries, in order
RECURSIVE FirstSeen(_, _)
FirstSeen(items, i) ==
    IF i > Len(items) THEN <<>>
    ELSE (IF \E j \in 1..(i - 1) : SamePair(items[j], items[i])
          THEN <<>> ELSE <<items[i]>>) \o FirstSeen(items, i + 1)

\* C11: search_company queries every adapter of the list, in list order; no two
\* entries of its result share the pair (lower-cased name, upper-cased ticker);
\* the result holds each distinct pair once, at its first-seen position; an
\* adapter whose search throws adds nothing and the call still returns.
C11_SearchMerged ==
    Searched =>
        /\ call.queried = fetchers
        /\ ~call.raised
        /\ \A i, j \in DOMAIN call.result :
               i # j => ~SamePair(call.result[i], call.result[j])
        /\ call.result = FirstSeen(ItemsFrom(1), 1)

\* C11 witness: three adapters; one throws, the other two return the same
\* company in different case and one more; the result has two entries, the
\* first-seen spelling first.
C11_Witness ==
    /\ Searched
    /\ Len(call.queried) = 3
    /\ \E i \in 1..3 : SearchAnswer(i).kind = "raise"
    /\ \E i, j \in 1..3 :
          /\ i < j
          /\ SearchAnswer(i).kind = "results" /\ SearchAnswer(j).kind = "results"
          /\ Len(SearchAnswer(i).items) = 1 /\ Len(SearchAnswer(j).items) = 2
          /\ SamePair(SearchAnswer(i).items[1], SearchAnswer(j).items[1])
          /\ SearchAnswer(i).items[1] # SearchAnswer(j).items[1]
          /\ call.result = <<SearchAnswer(i).items[1], SearchAnswer(j).items[2]>>

---------------------------------------------------------------------------
(* Claims about the report of QualityAnalyzer.analyze *)

\* no series holds a value and dividend_yield is 0.0
NothingPopulated(data) ==
    /\ \A f \in SeriesFields : data[f] = <<>>
    /\ data.dividend_yield = 0

\* C12: for a record with no series populated and zero dividend yield, each of
\* the seven category scores is exactly 5.0, overall_score is 5.0, key_strengths
\* is empty and red_flags is empty.
C12_EmptyRecordNeutral ==
    (Returned /\ NothingPopulated(rec)) =>
        /\ Len(report.category_scores) = 7
        /\ \A i \in 1..7 : report.category_scores[i].score = 50
        /\ report.overall_score = 50
        /\ report.key_strengths = <<>>
        /\ report.red_flags = <<>>

\* C12 witness: analyze has returned the report of an unpopulated record
C12_Witness ==
    /\ Returned
    /\ NothingPopulated(rec)
    /\ rec.years_analyzed = 3
    /\ report.overall_score = 50

\* the category score of the report with the given label
ScoreOf(category) ==
    LET i == CHOOSE k \in DOMAIN report.category_scores :
                 report.category_scores[k].category = category
    IN  report.category_scores[i]

\* the message embeds the figure (in the unit of its format)
Mentions(message, fig) == Len(message) = 2 /\ message[2] = fig

\* operating_margin = {2024: 22, 2023: 18}, net_margin = {2024: 16},
\* roe = {2024: 25}, nothing else
ProfitabilityScenario(data) ==
    /\ data.operating_margin = <<22, 18>>
    /\ data.net_margin = <<16>>
    /\ data.roe = <<25>>
    /\ PopulatedFields(data) = {"operating_margin", "net_margin", "roe"}
    /\ data.dividend_yield = 0

\* C13 as stated: in the profitability scenario the Profitability score is
\* >= 8.5 and one of the category's strengths mentions "22.0%".
C13_MentionsLatestMargin ==
    (Returned /\ ProfitabilityScenario(rec)) =>
        /\ ScoreOf(PROFITABILITY).score >= 85
        /\ \E i \in DOMAIN ScoreOf(PROFITABILITY).strengths :
               Mentions(ScoreOf(PROFITABILITY).strengths[i], 220)

\* C13 amended: in the profitability scenario the Profitability score is 8.5
\* and the strengths are, in order: healthy operating margin of "20.0%" (the
\* average of 22 and 18), improving margins, excellent net margin of "16.0%",
\* high ROE of "25.0%"; none mentions "22.0%".
C13_MentionsAverageMargin ==
    (Returned /\ ProfitabilityScenario(rec)) =>
        /\ ScoreOf(PROFITABILITY).score = 85
        /\ ScoreOf(PROFITABILITY).strengths =
               << Msg("Healthy operating margin of", 200),
                  Plain("Improving operating margins over time"),
                  Msg("Excellent net profit margin of", 160),
                  Msg("High ROE indicates efficient equity usage", 250) >>
        /\ ScoreOf(PROFITABILITY).concerns = <<>>

\* C13 witness: analyze has returned the report of the scenario's record
C13_Witness ==
    /\ Returned
    /\ ProfitabilityScenario(rec)
    /\ ScoreOf(PROFITABILITY).score >= 85

\* red_flags holds a flag with exactly these severity, category and description
HasFlag(severity, category, description) ==
    \E i \in DOMAIN report.red_flags :
        report.red_flags[i] = RedFlag(severity, category, description)

AllNegative(series) == series # <<>> /\ \A i \in DOMAIN series : series[i] < 0

\* C14: red-flag rule (b): whenever the record's net_income series is non-empty
\* and negative in every year, red_flags contains a flag with severity High,
\* category Profitability and description "Company has been consistently
\* unprofitable".
C14_UnprofitableFlag ==
    (Returned /\ AllNegative(rec.net_income)) =>
        HasFlag("High", "Profitability",
                Plain("Company has been consistently unprofitable"))

\* C14 witness: a single loss-making year next to other populated series, and
\* the flag is in the report
C14_Witness ==
    /\ Returned
    /\ rec.net_income = <<-4>>
    /\ rec.operating_cash_flow # <<>>
    /\ HasFlag("High", "Profitability",
               Plain("Company has been consistently unprofitable"))

\* the same record with the net_income series left empty
WithoutNetIncome(data) == [data EXCEPT !.net_income = <<>>]

\* C15: for a record whose net_income series has 4 years of values, all
\* negative, overall_score is strictly lower than the overall score of the same
\* record with net_income left empty (below 5.0 when nothing else is populated).
C15_LossesLowerOverall ==
    (Returned /\ Len(rec.net_income) = 4 /\ AllNegative(rec.net_income)) =>
        \A half_up \in BOOLEAN :
            report.overall_score < analyze(WithoutNetIncome(rec), half_up).overall_score

\* the year-over-year comparisons of a series listed most-recent first in which
\* the year's value is lower than the preceding year's
Declines(series) ==
    Cardinality({i \in 1..(Len(series) - 1) : series[i] < series[i + 1]})

HasHighGrowthFlag ==
    \E i \in DOMAIN report.red_flags :
        report.red_flags[i].severity = "High" /\ report.red_flags[i].category = "Growth"

\* C16: red-flag rule (a): red_flags contains a High-severity flag with category
\* Growth exactly when the revenue series (most-recent first) has at least 3
\* years and at least 2 of its year-over-year comparisons show a decline; with
\* fewer than 2 declines or fewer than 3 years there is no such flag.
C16_RevenueDeclineFlag ==
    Returned =>
        (HasHighGrowthFlag <=> (Len(rec.revenue) >= 3 /\ Declines(rec.revenue) >= 2))

\* C16 witness: five years of revenue with exactly two declines that are not
\* adjacent, and the flag is in the report
C16_Witness ==
    /\ Returned
    /\ Len(rec.revenue) = 5
    /\ Declines(rec.revenue) = 2
    /\ rec.revenue[1] < rec.revenue[2] /\ rec.revenue[4] < rec.revenue[5]
    /\ HasHighGrowthFlag

\* the flags of the report tagged with the category, in order
FlagsOf(category) ==
    SelectSeq(report.red_flags, LAMBDA flag : flag.category = category)

DebtFlag(severity, d) ==
    RedFlag(severity, "Financial Health",
            Msg("High debt-to-equity ratio of", Fmt2(d, RatioScale)))

\* C17: red-flag rule (c): with d the first (most-recent) debt-to-equity value,
\* d > 3 gives one High Financial Health flag, 2 < d <= 3 one Medium Financial
\* Health flag, d <= 2 (or no value) none; the description embeds d to two
\* decimals, so d = 3.5 gives a High flag with "3.50".
C17_DebtFlag ==
    Returned =>
        IF rec.debt_to_equity = <<>> THEN FlagsOf("Financial Health") = <<>>
        ELSE LET d == rec.debt_to_equity[1]
             IN  /\ d > 3 * RatioScale =>
                        FlagsOf("Financial Health") = <<DebtFlag("High", d)>>
                 /\ (2 * RatioScale < d /\ d <= 3 * RatioScale) =>
                        FlagsOf("Financial Health") = <<DebtFlag("Medium", d)>>
                 /\ d <= 2 * RatioScale => FlagsOf("Financial Health") = <<>>
                 /\ 2 * d = 7 * RatioScale =>
                        Mentions(FlagsOf("Financial Health")[1].description, 350)

\* C17 witness: the latest debt-to-equity is 3.5 after lower earlier years, and
\* the report holds the High flag with "3.50"
C17_Witness ==
    /\ Returned
    /\ Len(rec.debt_to_equity) >= 2
    /\ 2 * rec.debt_to_equity[1] = 7 * RatioScale
    /\ rec.debt_to_equity[2] <= 2 * RatioScale
    /\ HasFlag("High", "Financial Health", Msg("High debt-to-equity ratio of", 350))

HasEarningsQualityFlag ==
    \E i \in DOMAIN report.red_flags :
        /\ report.red_flags[i].severity = "Medium"
        /\ report.red_flags[i].category = "Earnings Quality"

\* the positions both series hold a value for
CommonYears(data) == 1..Min2(Len(data.net_income), Len(data.operating_cash_flow))

\* C18 as stated: red_flags contains a Medium Earnings Quality flag exactly when
\* there are at least 2 years with net income >= 2 x operating cash flow.
C18_FlagAtTwiceOrMore ==
    Returned =>
        (HasEarningsQualityFlag <=>
            Cardinality({i \in CommonYears(rec) :
                rec.net_income[i] >= 2 * rec.operating_cash_flow[i]}) >= 2)

\* C18 amended: red_flags contains a Medium Earnings Quality flag exactly when
\* there are at least 2 positions, held by both series, at which net income and
\* operating cash flow are both positive and net income is strictly more than
\* 2 x operating cash flow.
C18_FlagAboveTwiceBothPositive ==
    Returned =>
        (HasEarningsQualityFlag <=>
            Cardinality({i \in CommonYears(rec) :
                /\ rec.net_income[i] > 0
                /\ rec.operating_cash_flow[i] > 0
                /\ rec.net_income[i] > 2 * rec.operating_cash_flow[i]}) >= 2)

\* C18 witness: three years of net income, two years of operating cash flow;
\* in both common years the cash flow is positive and net income is above
\* twice it; the flag is in the report
C18_Witness ==
    /\ Returned
    /\ Len(rec.net_income) = 3 /\ Len(rec.operating_cash_flow) = 2
    /\ \A i \in 1..2 : /\ rec.operating_cash_flow[i] > 0
                       /\ rec.net_income[i] > 2 * rec.operating_cash_flow[i]
    /\ rec.net_income[1] # rec.net_income[2]
    /\ HasEarningsQualityFlag

\* the flags rule (f) owes a category: its first two concerns at most, Medium,
\* tagged with the category's label
ConcernFlags(cs) ==
    [i \in 1..Min2(2, Len(cs.concerns)) |-> RedFlag("Medium", cs.category, cs.concerns[i])]

\* C19: red-flag rule (f): for every category scoring below 4 the flags tagged
\* with its label are its first up-to-2 concerns, each as a Medium flag, in
\* order; a category scoring 4 or above has no flag tagged with its label; no
\* category has more than 2.
C19_LowScoreConcerns ==
    Returned =>
        \A k \in DOMAIN report.category_scores :
            LET cs == report.category_scores[k]
            IN  /\ cs.score < 40 => FlagsOf(cs.category) = ConcernFlags(cs)
                /\ cs.score >= 40 => FlagsOf(cs.category) = <<>>
                /\ Len(FlagsOf(cs.category)) <= 2

\* C19 witness: a category scores below 4 with three concerns and exactly the
\* first two are flagged
C19_Witness ==
    /\ Returned
    /\ \E k \in DOMAIN report.category_scores :
          LET cs == report.category_scores[k]
          IN  /\ cs.score < 40
              /\ Len(cs.concerns) = 3
              /\ Len(FlagsOf(cs.category)) = 2
              /\ FlagsOf(cs.category)[2].description = cs.concerns[2]

\* category i comes before category j in key_strengths: higher score, or equal
\* score and earlier in the analysis order
ComesBefore(i, j) ==
    \/ report.category_scores[i].score > report.category_scores[j].score
    \/ /\ report.category_scores[i].score = report.category_scores[j].score
       /\ i < j

\* the number of strengths of the categories among the given ones
RECURSIVE StrengthCount(_)
StrengthCount(categories) ==
    IF categories = {} THEN 0
    ELSE LET i == CHOOSE k \in categories : TRUE
         IN  Len(report.category_scores[i].strengths) + StrengthCount(categories \ {i})

\* the strengths listed before those of category i
StrengthsAhead(i) ==
    StrengthCount({j \in DOMAIN report.category_scores : ComesBefore(j, i)})

\* C20: key_strengths lists the categories' strengths category by category, in
\* descending order of category score (equal scores in analysis order), each
\* prefixed with its category label, and keeps the first 8 entries at most.
C20_KeyStrengths ==
    Returned =>
        /\ Len(report.key_strengths) =
               Min2(8, StrengthCount(DOMAIN report.category_scores))
        /\ \A i \in DOMAIN report.category_scores :
               \A s \in DOMAIN report.category_scores[i].strengths :
                   StrengthsAhead(i) + s <= 8 =>
                       report.key_strengths[StrengthsAhead(i) + s] =
                           <<report.category_scores[i].category>>
                               \o report.category_scores[i].strengths[s]

\* C20 witness: more than 8 strengths in all, 8 kept; a later category outscores
\* an earlier one that has strengths, and two categories with strengths tie
C20_Witness ==
    /\ Returned
    /\ StrengthCount(DOMAIN report.category_scores) > 8
    /\ Len(report.key_strengths) = 8
    /\ \E i, j \in DOMAIN report.category_scores :
          /\ i < j
          /\ report.category_scores[i].score < report.category_scores[j].score
          /\ report.category_scores[i].strengths # <<>>
          /\ report.category_scores[j].strengths # <<>>
    /\ \E i, j \in DOMAIN report.category_scores :
          /\ i < j
          /\ report.category_scores[i].score = report.category_scores[j].score
          /\ report.category_scores[i].strengths # <<>>
          /\ report.category_scores[j].strengths # <<>>

---------------------------------------------------------------------------
(* Claims about repeated calls of QualityAnalyzer.analyze *)

AnalyzedTwice == call.kind = "analyze again"

C22_NeverAborts == report # Raised

---------------------------------------------------------------------------
(* Claims about the operating-margin rules of _analyze_profitability *)

\* the messages that embed a figure
WithFigure(messages) == SelectSeq(messages, LAMBDA m : Len(m) = 2)

Among(messages, m) == \E i \in DOMAIN messages : messages[i] = m

\* the trend adjustment the report records, in tenths
TrendRecorded ==
    (IF Among(ScoreOf(PROFITABILITY).strengths,
              Plain("Improving operating margins over time")) THEN 5 ELSE 0)
    - (IF Among(ScoreOf(PROFITABILITY).concerns,
                Plain("Declining operating margins")) THEN 5 ELSE 0)

\* the rung of the ladder for an average of s / n, in tenths
Rung(s, n) ==
    IF s > 20 * n THEN 20
    ELSE IF s > 15 * n THEN 10
    ELSE IF s >= 10 * n THEN 0
    ELSE IF s >= 5 * n THEN -10
    ELSE -20

OnlyMargins == PopulatedFields(rec) = {"operating_margin"} /\ rec.dividend_yield = 0

\* C23: with a the average operating margin of a non-empty series, exactly one
\* rung applies: a > 20 adds 2, 15 < a <= 20 adds 1, 10 <= a <= 15 adds 0,
\* 5 <= a < 10 subtracts 1, a < 5 subtracts 2; a positive rung records one
\* strength, a negative rung one concern, embedding a to one decimal, and the
\* zero rung records neither.
C23_MarginLadder ==
    (Returned /\ OnlyMargins) =>
        LET s == Sum(rec.operating_margin)
            n == Len(rec.operating_margin)
            cs == ScoreOf(PROFITABILITY)
        IN  /\ cs.score = 50 + Rung(s, n) + TrendRecorded
            /\ Len(WithFigure(cs.strengths)) = (IF Rung(s, n) > 0 THEN 1 ELSE 0)
            /\ Len(WithFigure(cs.concerns)) = (IF Rung(s, n) < 0 THEN 1 ELSE 0)
            /\ \A i \in DOMAIN WithFigure(cs.strengths) :
                   Mentions(WithFigure(cs.strengths)[i], Fmt1(s, n))
            /\ \A i \in DOMAIN WithFigure(cs.concerns) :
                   Mentions(WithFigure(cs.concerns)[i], Fmt1(s, n))

\* C23 witness: two years averaging exactly 20.0: the +1 rung, one strength
\* with "20.0"
C23_Witness ==
    /\ Returned
    /\ OnlyMargins
    /\ Len(rec.operating_margin) = 2
    /\ Sum(rec.operating_margin) = 40
    /\ rec.operating_margin[1] # rec.operating_margin[2]
    /\ WithFigure(ScoreOf(PROFITABILITY).strengths) =
           <<Msg("Healthy operating margin of", 200)>>

\* the Profitability score without the rung of the ladder, in tenths
TrendApplied ==
    ScoreOf(PROFITABILITY).score - 50
        - Rung(Sum(rec.operating_margin), Len(rec.operating_margin))

---------------------------------------------------------------------------
(* Claims about ScreenerInFetcher *)

Extracted == call.kind = "_extract_table_data"

\* C25: the scrape adapter produces series that list the years most-recent
\* first, whether the page's table is ordered oldest-to-newest or
\* newest-to-oldest.
C25_MostRecentFirst ==
    Extracted =>
        \A i, j \in DOMAIN call.data : i < j => call.data[i].year > call.data[j].year

ScreenerFetched == call.kind = "ScreenerInFetcher.fetch_data"

\* the request did not bring a page: exception (network error, timeout) or a
\* status other than 200
RequestFailed(reply) == reply.kind = "raise" \/ reply.status_code # 200

\* C26: fetch_data requests the consolidated page first and, whenever that
\* request fails (status, network error or timeout), requests the standalone
\* page; it returns None only after both requests failed; it never raises.
C26_StandaloneFallback ==
    ScreenerFetched =>
        /\ call.requested[1] = "consolidated"
        /\ RequestFailed(call.env.consolidated) =>
               call.requested = <<"consolidated", "standalone">>
        /\ call.result = None =>
               (RequestFailed(call.env.consolidated) /\ RequestFailed(call.env.standalone))
        /\ call.result # Exception

---------------------------------------------------------------------------
(* Claims about the known-regional-ticker sets *)

Unsuffixed(company_identifier) ==
    \A i \in DOMAIN company_identifier : company_identifier[i] # "."

EmitsRegionalVariants(candidates, T) ==
    /\ \E i \in DOMAIN candidates : candidates[i] = T \o NS
    /\ \E i \in DOMAIN candidates : candidates[i] = T \o BO

\* C27: market auto-detection and the ticker resolver use the same set of known
\* regional tickers: for an unsuffixed ticker the resolver's candidates hold the
\* .NS and .BO variants if and only if _detect_market answers 'india'.
C27_SameRegionalSet ==
    (/\ Fetched
     /\ Lower(call.preferred_market) = AUTO
     /\ \E k \in DOMAIN call.tried : call.tried[k] = YAHOO
     /\ Unsuffixed(call.company_identifier))
    => (EmitsRegionalVariants(call.ticker_candidates,
                              Strip(Upper(call.company_identifier)))
           <=> call.market = INDIA)

---------------------------------------------------------------------------
(* Well-formedness of the validator's result                                  *)

\* the result of an accepted name: a best match that heads the list, no error
WellFormedValid(result) ==
    /\ result.best_match # NoMatch
    /\ result.matches # <<>>
    /\ result.best_match = result.matches[1]
    /\ result.error = <<>>

\* the result of a rejected name: nothing matched, and a message that says so
WellFormedInvalid(result) ==
    /\ result.best_match = NoMatch
    /\ result.matches = <<>>
    /\ result.error # <<>>
    /\ result.error[1] # ""

\* C28: every result validate_company_name returns is well-formed: valid
\* exactly when best_match is present, and then matches is non-empty, headed by
\* best_match, with no error; when not valid, matches is empty, best_match is
\* absent and error is a non-empty message, empty and blank input included.
\* The call always returns such a result, never an exception.
C28_WellFormedResult ==
    Validated
    => /\ vout.valid \in BOOLEAN
       /\ vout.valid <=> (vout.best_match # NoMatch)
       /\ vout.valid => WellFormedValid(vout)
       /\ ~vout.valid => WellFormedInvalid(vout)

\* C28 witness: a blank input has been rejected with matches empty, no best
\* match and the message that the name cannot be empty.
C28_Witness ==
    /\ Validated
    /\ vin.company_name = <<" ", " ">>
    /\ ~vout.valid
    /\ WellFormedInvalid(vout)
    /\ vout.error[1] = "Company name or ticker cannot be empty"

---------------------------------------------------------------------------
(* The accrual ratio of the Quality-of-Earnings explanation                   *)

\* the parts of the Quality-of-Earnings explanation that report an accrual ratio
ReportedAccruals ==
    LET parts == ScoreOf(QUALITY_EARNINGS).explanation.parts
    IN  {parts[i] : i \in {k \in DOMAIN parts : parts[k][1] = "Accruals Ratio"}}

\* the scorer worked out an accrual ratio for the record
ScorerUsedRatio(data) ==
    /\ data.operating_cash_flow # <<>> /\ data.net_income # <<>>
    /\ ScorerTotalOcf(data.operating_cash_flow, data.net_income) > 0

\* the label of the explanation and the strength or concern the scorer recorded
\* say the same about the accruals
LabelAgrees(label, qs) ==
    /\ label \in {"low - high cash quality", "moderate"}
           => \A i \in DOMAIN qs.concerns :
                  qs.concerns[i] \notin {Plain("High accruals - earnings quality concerns"),
                                         Plain("Moderate accruals in earnings")}
    /\ label = "high - quality concerns"
           => \A i \in DOMAIN qs.strengths :
                  qs.strengths[i] # Plain("High cash conversion - earnings backed by cash")

\* C29: whenever the Quality-of-Earnings explanation reports an accrual ratio,
\* it is the ratio the scorer used for its adjustment (same numerator, same
\* denominator, same years), and its label does not contradict the strength or
\* concern the scorer recorded for the accruals.
C29_SameAccrualRatio ==
    Returned =>
        \A part \in ReportedAccruals :
            /\ ScorerUsedRatio(rec)
            /\ part[2] = Fmt2(ScorerAccruals(rec.operating_cash_flow, rec.net_income),
                              ScorerTotalOcf(rec.operating_cash_flow, rec.net_income))
            /\ LabelAgrees(part[3], ScoreOf(QUALITY_EARNINGS))

---------------------------------------------------------------------------
(* Every score adjustment is explained                                        *)

\* a category score that left 5.0 has something on the side it moved to
Explained(cs) ==
    /\ cs.score < 50 => cs.concerns # <<>>
    /\ cs.score > 50 => cs.strengths # <<>>

\* rule (f) has a concern of the category to put among the red flags
Surfaced(cs) ==
    /\ cs.concerns # <<>>
    /\ \E i \in DOMAIN report.red_flags :
           report.red_flags[i] = RedFlag("Medium", cs.category, cs.concerns[1])

\* C30: in every report analyze returns, a category score below 5.0 comes with a
\* non-empty concerns list and a score above 5.0 with a non-empty strengths
\* list; so a category scoring below 4 has at least one concern, which rule (f)
\* puts among the red flags.
C30_AdjustmentsExplained ==
    Returned =>
        \A i \in DOMAIN report.category_scores :
            /\ Explained(report.category_scores[i])
            /\ report.category_scores[i].score < 40 => Surfaced(report.category_scores[i])

\* C30 witness: a report in which one category scores below 4 with a concern
\* that is among the red flags, and another scores above 5 with a strength.
C30_Witness ==
    /\ Returned
    /\ \E i, j \in DOMAIN report.category_scores :
           /\ report.category_scores[i].score < 40
           /\ Surfaced(report.category_scores[i])
           /\ report.category_scores[j].score > 50
           /\ report.category_scores[j].strengths # <<>>

====
